---- MODULE Spec2Model ----
(***************************************************************************)
(* score-checker: the scan / filter / batch / trigger engine of            *)
(* internal/app/app.go (findLowScoreEpisodes, findLowScoreMovies, RunOnce) *)
(* and the scheduler (RunDaemon, the daemon command of main.go) as a state *)
(* machine.  One step is one request sent, one answer received, one        *)
(* evaluated item, one loop exit, one tick or the shutdown.  The answers   *)
(* of the Sonarr / Radarr services (the catalog and the failure of a call) *)
(* are inputs chosen when the answer arrives.                              *)
(***************************************************************************)
EXTENDS Integers, Sequences, FiniteSets, TLC

(***************************************************************************)
(* Bounds of the model.                                                    *)
(***************************************************************************)
MaxInstances == 3     \* configured instances, both service types together
MaxSeries == 2        \* series of a catalog of low- and zero-score items
MaxEpisodes == 2      \* episodes of a series
MaxMovies == 3        \* movies of a catalog drawn from all leaf kinds
MaxBatch == 2         \* largest small batch size
MaxSmall == 2         \* series / movies of a catalog of the one-pass specification
MaxKinded == 2        \* series of a catalog drawn from all leaf kinds
MaxLong == 21         \* length of the longest all-low-score catalog
MaxPasses == 2        \* passes of the daemon that are told apart

\* constants.DefaultSearchBatchSize: IDs per search command
DefaultSearchBatchSize == 10

\* the default of the interval flag (main.go 54), in hours
DefaultInterval == 1

NoError == "nil"

(***************************************************************************)
(* Data: types.Episode / types.MovieWithFile.  The optional file pointer   *)
(* (EpisodeFile, MovieFile) is a sequence: <<>> is the nil pointer, a      *)
(* one-element sequence holds the file record.                             *)
(***************************************************************************)
NilFile == << >>

FileWith(score) == << [CustomFormatScore |-> score] >>

\* the shapes a leaf item takes: <<HasFile, file pointer>>
LowKind == << TRUE, FileWith(-1) >>

OkKind == << TRUE, FileWith(0) >>

LeafKinds ==
  { LowKind, OkKind,
    << TRUE, FileWith(-2) >>,
    << TRUE, FileWith(1) >>,
    << FALSE, FileWith(-1) >>,
    << TRUE, NilFile >>,
    << FALSE, NilFile >> }

BasicKinds == { LowKind, OkKind }

SeqsUpTo(S, n) == UNION { [1..k -> S] : k \in 0..n }

SeriesID(p) == 10 * p

EpisodeID(p, e) == 100 * p + e

MovieID(p) == 1000 + p

\* a series of the service: its ID and the episodes the service lists for it
MkSeries(p, kinds) ==
  [ID |-> SeriesID(p),
   Episodes |-> [e \in 1..Len(kinds) |->
                   [ID |-> EpisodeID(p, e), SeriesID |-> SeriesID(p),
                    HasFile |-> kinds[e][1], EpisodeFile |-> kinds[e][2]]]]

MkSeriesCatalog(kk) == [p \in 1..Len(kk) |-> MkSeries(p, kk[p])]

MkMovieCatalog(kinds) ==
  [p \in 1..Len(kinds) |->
     [ID |-> MovieID(p), HasFile |-> kinds[p][1], MovieFile |-> kinds[p][2]]]

\* catalogs of the one-pass specification: low-score and zero-score items
SmallSeriesCatalogs ==
  { MkSeriesCatalog(kk) : kk \in SeqsUpTo(SeqsUpTo(BasicKinds, 1), MaxSmall) }

SmallMovieCatalogs ==
  { MkMovieCatalog(kinds) : kinds \in SeqsUpTo(BasicKinds, MaxSmall) }

\* catalogs of the single-scan specification: every leaf kind, several
\* episodes per series, and long runs of low-score items with at most one
\* zero-score item among them (for the sub-batches of the search)
LongRuns ==
  { [j \in 1..n |-> IF j = z THEN OkKind ELSE LowKind] :
      n \in (DefaultSearchBatchSize - 1)..MaxLong, z \in {0, 1, DefaultSearchBatchSize} }

RichSeriesCatalogs ==
  { MkSeriesCatalog(kk) : kk \in SeqsUpTo(SeqsUpTo(LeafKinds, 1), MaxKinded) }
    \cup { MkSeriesCatalog(kk) : kk \in SeqsUpTo(SeqsUpTo(BasicKinds, MaxEpisodes), MaxSeries) }
    \cup { MkSeriesCatalog(<< run, tail >>) :
             run \in LongRuns, tail \in SeqsUpTo({LowKind}, 1) }

RichMovieCatalogs ==
  { MkMovieCatalog(kinds) : kinds \in SeqsUpTo(LeafKinds, MaxMovies) \cup LongRuns }

(***************************************************************************)
(* Configuration: types.Config as config.Load delivers it.                 *)
(***************************************************************************)
ServiceConfig(svc, k) ==
  [Name |-> << svc, k >>, BaseURL |-> << "url", svc, k >>, APIKey |-> << "key", svc, k >>]

Instances(svc, n) == [k \in 1..n |-> ServiceConfig(svc, k)]

BatchSizes == (-1)..MaxBatch

\* the durations time.ParseDuration delivers for the interval, in hours:
\* "-1h", "0s" and "1h" all parse
Intervals == { -DefaultInterval, 0, DefaultInterval }

\* the --loglevel flag (main.go 55) and its default (config.go 82)
LogLevels == {"ERROR", "INFO", "DEBUG", "VERBOSE"}

DefaultLogLevel == "INFO"

Configs(counts, batches, intervals) ==
  { [TriggerSearch |-> t, BatchSize |-> b, Interval |-> d,
     LogLevel |-> DefaultLogLevel,
     SonarrInstances |-> Instances("sonarr", n[1]),
     RadarrInstances |-> Instances("radarr", n[2])] :
      t \in BOOLEAN, b \in batches, d \in intervals, n \in counts }

(***************************************************************************)
(* State.                                                                  *)
(***************************************************************************)
VARIABLES
  cfg,               \* types.Config of the process
  sonarrConfig,      \* config.Load: the "sonarr" list of the settings
  radarrConfig,      \* config.Load: the "radarr" list of the settings
  mode,              \* the command of main.go that runs: "once" or "daemon"
                     \* ("client": a client operation is called on its own)
  ticker,            \* RunDaemon: ticks waiting in ticker.C (it buffers one)
  passLog,           \* per RunOnce call so far, the latest last: did a client
                     \* call of that pass fail (the oldest are forgotten)
  inflight,          \* HTTP requests sent and not yet answered
  pc,                \* control position of the main goroutine
  idx,               \* position in cfg.SonarrInstances / cfg.RadarrInstances
  catalog,           \* what the service of the instance being scanned holds
  series,            \* findLowScoreEpisodes: series
  sIdx,              \* position of the range over series
  episodes,          \* findLowScoreEpisodes: episodes
  eIdx,              \* position of the range over episodes
  lowScoreEpisodes,  \* findLowScoreEpisodes: lowScoreEpisodes
  episodesToSearch,  \* findLowScoreEpisodes: episodesToSearch
  movies,            \* findLowScoreMovies: movies
  mIdx,              \* position of the range over movies
  lowScoreMovies,    \* findLowScoreMovies: lowScoreMovies
  moviesToSearch,    \* findLowScoreMovies: moviesToSearch
  processedCount,    \* processedCount of the running scan
  reachedLimit,      \* findLowScoreEpisodes: reachedLimit
  i,                 \* offset of the sub-batch loop
  ret,               \* what the scan returned: [list, err]
  calls,             \* client calls of the running scan, in call order
  warnings,          \* slog.Error lines of the running scan
  scanned,           \* instances whose scan was started in this pass
  reports            \* what RunOnce printed per instance in this pass

locals == << catalog, series, sIdx, episodes, eIdx, lowScoreEpisodes,
             episodesToSearch, movies, mIdx, lowScoreMovies, moviesToSearch,
             processedCount, reachedLimit, i >>

vars == << cfg, sonarrConfig, radarrConfig, mode, ticker, passLog, inflight, pc,
          idx, locals, ret, calls,
          warnings, scanned, reports >>

\* what no step of a scan changes
proc == << cfg, sonarrConfig, radarrConfig, mode, ticker, passLog, inflight >>

\* the state of the main goroutine within RunOnce
pass == << pc, idx, locals, ret, calls, warnings, scanned, reports >>

\* mutant of NilSlice: a slice is never nil
NilSliceNever(list) == FALSE

\* `var lowScoreEpisodes []types.LowScoreEpisode` (app.go 25, 104) declares
\* the nil slice, and append (49, 115) is the only thing that changes it: the
\* slice is nil exactly as long as nothing was appended
NilSlice(list) == Len(list) = 0

\* the two results of a scan (app.go 22, 92, 101, 155): the list, whether it
\* is the nil slice, and the error
Returned(list, err) == [list |-> list, err |-> err, isNil |-> NilSlice(list)]

NoReturn == [list |-> << >>, err |-> NoError, isNil |-> TRUE]

\* mutant of FrameCleared: the match lists outlive the scan
FrameKeptMatches ==
  /\ catalog' = << >>
  /\ series' = << >>
  /\ sIdx' = 0
  /\ episodes' = << >>
  /\ eIdx' = 0
  /\ lowScoreEpisodes' = lowScoreEpisodes
  /\ episodesToSearch' = << >>
  /\ movies' = << >>
  /\ mIdx' = 0
  /\ lowScoreMovies' = lowScoreMovies
  /\ moviesToSearch' = << >>
  /\ processedCount' = 0
  /\ reachedLimit' = FALSE
  /\ i' = 0

\* mutant of FrameCleared: the limit flag outlives the scan
FrameKeptLimit ==
  /\ catalog' = << >>
  /\ series' = << >>
  /\ sIdx' = 0
  /\ episodes' = << >>
  /\ eIdx' = 0
  /\ lowScoreEpisodes' = << >>
  /\ episodesToSearch' = << >>
  /\ movies' = << >>
  /\ mIdx' = 0
  /\ lowScoreMovies' = << >>
  /\ moviesToSearch' = << >>
  /\ processedCount' = 0
  /\ reachedLimit' = reachedLimit
  /\ i' = 0

\* mutant of FrameCleared: the pending-search lists outlive the scan
FrameKeptPending ==
  /\ catalog' = << >>
  /\ series' = << >>
  /\ sIdx' = 0
  /\ episodes' = << >>
  /\ eIdx' = 0
  /\ lowScoreEpisodes' = << >>
  /\ episodesToSearch' = episodesToSearch
  /\ movies' = << >>
  /\ mIdx' = 0
  /\ lowScoreMovies' = << >>
  /\ moviesToSearch' = moviesToSearch
  /\ processedCount' = 0
  /\ reachedLimit' = FALSE
  /\ i' = 0

\* the locals of a scan are variables of its call (app.go 25-29, 104-106):
\* the frame of a scan before it runs and after RunOnce consumed its result
FrameCleared ==
  /\ catalog' = << >>
  /\ series' = << >>
  /\ sIdx' = 0
  /\ episodes' = << >>
  /\ eIdx' = 0
  /\ lowScoreEpisodes' = << >>
  /\ episodesToSearch' = << >>
  /\ movies' = << >>
  /\ mIdx' = 0
  /\ lowScoreMovies' = << >>
  /\ moviesToSearch' = << >>
  /\ processedCount' = 0
  /\ reachedLimit' = FALSE
  /\ i' = 0

InitWith(configs, command) ==
  /\ cfg \in configs
  /\ sonarrConfig = << >>
  /\ radarrConfig = << >>
  /\ mode = command
  /\ ticker = 0
  /\ passLog = << >>
  /\ inflight = << >>
  /\ pc = IF command = "daemon" THEN "daemon"
          ELSE IF command = "client" THEN "client" ELSE "idle"
  /\ idx = 0
  /\ catalog = << >>
  /\ series = << >>
  /\ sIdx = 0
  /\ episodes = << >>
  /\ eIdx = 0
  /\ lowScoreEpisodes = << >>
  /\ episodesToSearch = << >>
  /\ movies = << >>
  /\ mIdx = 0
  /\ lowScoreMovies = << >>
  /\ moviesToSearch = << >>
  /\ processedCount = 0
  /\ reachedLimit = FALSE
  /\ i = 0
  /\ ret = NoReturn
  /\ calls = << >>
  /\ warnings = << >>
  /\ scanned = << >>
  /\ reports = << >>

\* the error a client call returns: nil, or the transport / status error
ClientResult(ok) == IF ok THEN NoError ELSE "request failed"

Call(op, inst, arg, ok) == [op |-> op, inst |-> inst.Name, arg |-> arg, ok |-> ok]

Min(a, b) == IF a < b THEN a ELSE b

\* mutant of Request: every client sends the credential of the first
\* configured instance of its service
RequestFirstKey(op, inst, arg) ==
  [op |-> op, inst |-> inst.Name, arg |-> arg, url |-> inst.BaseURL,
   key |-> [inst EXCEPT !.Name[2] = 1, !.APIKey[3] = 1].APIKey]

\* a request on the wire: the call without its outcome, addressed to
\* c.config.BaseURL + endpoint and carrying the header X-Api-Key:
\* c.config.APIKey, where c.config is the instance NewClient was given
\* (sonarr/client.go 23-30, 35, 52, 128, 140; radarr client alike)
Request(op, inst, arg) ==
  [op |-> op, inst |-> inst.Name, arg |-> arg, url |-> inst.BaseURL,
   key |-> inst.APIKey]

\* mutant of CanSend: the request is sent without waiting for the answer to
\* the one before
CanSendAlways(q) == TRUE

\* client.Do (sonarr/client.go 55) is synchronous: the caller sends a
\* request only when no request of its own is unanswered
CanSend(q) == q = << >>

\* client.Do returns: the oldest request on the wire is the one of this call
Answered(q, op) == q # << >> /\ q[1].op = op

\* the pass log when RunOnce is entered: a new entry, and only the latest
\* MaxPasses entries are kept
Started(log) ==
  (IF Len(log) < MaxPasses THEN log ELSE SubSeq(log, 2, Len(log))) \o << FALSE >>

\* the pass log after a client call of the running pass
Noted(log, ok) ==
  IF ok \/ log = << >> THEN log ELSE [log EXCEPT ![Len(log)] = TRUE]

\* mutant of TriggerSearchEnabled: the flag is taken as set
TriggerSearchAlways(c) == TRUE

\* cfg.TriggerSearch as the scan and the report read it (app.go 55, 72, 231)
TriggerSearchEnabled(c) == c.TriggerSearch

\* mutant of IsError: the error of a call is not looked at
IsErrorNever(err) == FALSE

\* mutant of IsError: the comparison is inverted
IsErrorInverted(err) == err = NoError

\* `if err != nil` (app.go 21, 100, 226, 245)
IsError(err) == err # NoError

\* mutant of LimitReached: batch size 0 is taken as a limit too
LimitReachedAtZero(batchSize, count) == count >= batchSize

\* mutant of LimitReached: the limit is noticed one match late
LimitReachedLate(batchSize, count) == batchSize > 0 /\ count > batchSize

\* mutant of LimitReached: every batch size but 0 limits the scan
LimitReachedNonzero(batchSize, count) == batchSize # 0 /\ count >= batchSize

\* app.go 61, 126: the batch limit is reached
LimitReached(batchSize, count) == batchSize > 0 /\ count >= batchSize

\* mutant of SearchBatch: the end of the slice is taken as inclusive
SearchBatchShort(ids, off) ==
  SubSeq(ids, off + 1, Min(off + DefaultSearchBatchSize, Len(ids)) - 1)

\* app.go 78-80, 141-143: the sub-batch at offset off
SearchBatch(ids, off) ==
  SubSeq(ids, off + 1, Min(off + DefaultSearchBatchSize, Len(ids)))

\* mutant of AfterTrigger: the loop moves on by one ID, not by one sub-batch
AfterTriggerByOne(off, ok, n) == off + 1

\* mutant of AfterTrigger: a failed sub-batch ends the loop
AfterTriggerBreak(off, ok, n) == IF ok THEN off + DefaultSearchBatchSize ELSE n

\* app.go 77, 82-85: after a sub-batch, failed or not, the loop goes on with
\* the next offset (n is the length of the ID list)
AfterTrigger(off, ok, n) == off + DefaultSearchBatchSize

\* mutant of ProceedsToTrigger: a scan that ended at the batch limit returns
\* without searching
ProceedsToTriggerUnlessLimit(c, ids, count) ==
  TriggerSearchEnabled(c) /\ Len(ids) > 0 /\ ~LimitReached(c.BatchSize, count)

\* app.go 72, 135: after the scan loop, however it was left, the sub-batch
\* loop runs if the flag is set and IDs were collected (count is the
\* processed counter)
ProceedsToTrigger(c, ids, count) == TriggerSearchEnabled(c) /\ Len(ids) > 0

\* mutant of Collect: the match is put in front of the list
CollectFront(list, m) == << m >> \o list

\* app.go 49-53, 57, 115-118, 122: append to the match list / the ID list
Collect(list, m) == Append(list, m)

\* mutant of SeriesLoopContinues: only the inner loop is left at the limit
SeriesLoopIgnoresLimit(s, n, limit) == s <= n

\* app.go 31-34: the range over series goes on (s is the position, n the
\* number of series, limit the reachedLimit flag)
SeriesLoopContinues(s, n, limit) == s <= n /\ ~limit

\* mutant of AfterEpisodesError: a failed episode listing ends the range
AfterEpisodesErrorBreak(s, n) == n + 1

\* app.go 39-42: after a failed episode listing the range goes on with the
\* next series (n is the number of series)
AfterEpisodesError(s, n) == s + 1

\* mutant of AfterScanError: a failed scan ends the range over the instances
AfterScanErrorBreak(k, n) == n + 1

\* app.go 226-229, 245-248: after a failed scan the range goes on with the
\* next instance (n is the number of instances)
AfterScanError(k, n) == k + 1

(***************************************************************************)
(* RunOnce, entry (app.go 205-214).                                        *)
(***************************************************************************)
RunOnceStart ==
  /\ pc = "idle"
  /\ pc' = "sonarrLoop"
  /\ idx' = 1
  /\ scanned' = << >>
  /\ reports' = << >>
  /\ passLog' = Started(passLog)
  /\ UNCHANGED << cfg, sonarrConfig, radarrConfig,
                  mode, ticker, inflight, locals, ret, calls, warnings >>

(***************************************************************************)
(* findLowScoreEpisodes (app.go 18-93).                                    *)
(***************************************************************************)
\* mutant of IsLowScoreEpisode: the has-file flag is not looked at
IsLowScoreEpisodeAnyFlag(episode) ==
  /\ episode.EpisodeFile # NilFile
  /\ episode.EpisodeFile[1].CustomFormatScore < 0

\* app.go 46-47: the episode has a file, its file record is present and
\* the file's custom format score is below zero
IsLowScoreEpisode(episode) ==
  /\ episode.HasFile
  /\ episode.EpisodeFile # NilFile
  /\ episode.EpisodeFile[1].CustomFormatScore < 0

\* RunOnce 219-225 calls findLowScoreEpisodes, which calls client.GetSeries
\* (20-30): on failure it returns (nil, error), else the scan starts
RequestSeries ==
  /\ pc = "sonarrLoop"
  /\ idx <= Len(cfg.SonarrInstances)
  /\ CanSend(inflight)
  /\ inflight' = Append(inflight, Request("GetSeries", cfg.SonarrInstances[idx], << >>))
  /\ UNCHANGED << cfg, sonarrConfig, radarrConfig,
                  mode, ticker, passLog, pass >>

GetSeries(ok, cat) ==
  /\ pc = "sonarrLoop"
  /\ idx <= Len(cfg.SonarrInstances)
  /\ Answered(inflight, "GetSeries")
  /\ inflight' = Tail(inflight)
  /\ passLog' = Noted(passLog, ok)
  /\ scanned' = Append(scanned, cfg.SonarrInstances[idx].Name)
  /\ calls' = << Call("GetSeries", cfg.SonarrInstances[idx], << >>, ok) >>
  /\ warnings' = << >>
  /\ IF ~IsError(ClientResult(ok))
       THEN /\ catalog' = cat
            /\ series' = [p \in 1..Len(cat) |-> [ID |-> cat[p].ID]]
            /\ sIdx' = 1
            /\ pc' = "series"
            /\ ret' = NoReturn
            /\ UNCHANGED << episodes, eIdx, lowScoreEpisodes, episodesToSearch,
                            processedCount, reachedLimit, i >>
       ELSE /\ ret' = [list |-> << >>, err |-> "getting series", isNil |-> TRUE]
            /\ pc' = "episodesReturned"
            /\ UNCHANGED << catalog, series, sIdx, episodes, eIdx,
                            lowScoreEpisodes, episodesToSearch, processedCount,
                            reachedLimit, i >>
  /\ UNCHANGED << cfg, sonarrConfig, radarrConfig,
                  mode, ticker, idx, movies, mIdx, lowScoreMovies,
                  moviesToSearch, reports >>

\* the episodes the service lists for a series ID
EpisodesOf(cat, id) == (CHOOSE s \in { cat[p] : p \in 1..Len(cat) } : s.ID = id).Episodes

\* app.go 31-42: next series; client.GetEpisodes(s.ID) fails (logged, the
\* series is skipped) or delivers the episodes of the series
RequestEpisodes ==
  /\ pc = "series"
  /\ SeriesLoopContinues(sIdx, Len(series), reachedLimit)
  /\ CanSend(inflight)
  /\ inflight' = Append(inflight, Request("GetEpisodes", cfg.SonarrInstances[idx],
                                           << series[sIdx].ID >>))
  /\ UNCHANGED << cfg, sonarrConfig, radarrConfig,
                  mode, ticker, passLog, pass >>

GetEpisodes(ok) ==
  /\ pc = "series"
  /\ SeriesLoopContinues(sIdx, Len(series), reachedLimit)
  /\ Answered(inflight, "GetEpisodes")
  /\ inflight' = Tail(inflight)
  /\ passLog' = Noted(passLog, ok)
  /\ calls' = Append(calls, Call("GetEpisodes", cfg.SonarrInstances[idx],
                                 << series[sIdx].ID >>, ok))
  /\ IF ~IsError(ClientResult(ok))
       THEN /\ episodes' = EpisodesOf(catalog, series[sIdx].ID)
            /\ eIdx' = 1
            /\ pc' = "episodes"
            /\ UNCHANGED << sIdx, warnings >>
       ELSE /\ warnings' = Append(warnings, [msg |-> "failed to get episodes",
                                                arg |-> << series[sIdx].ID >>])
            /\ sIdx' = AfterEpisodesError(sIdx, Len(series))
            /\ UNCHANGED << episodes, eIdx, pc >>
  /\ UNCHANGED << cfg, sonarrConfig, radarrConfig,
                  mode, ticker, idx, catalog, series, lowScoreEpisodes,
                  episodesToSearch, movies, mIdx, lowScoreMovies, moviesToSearch,
                  processedCount, reachedLimit, i, ret, scanned, reports >>

\* app.go 45-68: one episode of the inner loop
EvaluateEpisode ==
  /\ pc = "episodes"
  /\ eIdx <= Len(episodes)
  /\ LET episode == episodes[eIdx]
         s == series[sIdx]
     IN  IF IsLowScoreEpisode(episode)
           THEN /\ lowScoreEpisodes' =
                     Collect(lowScoreEpisodes,
                            [Series |-> s, Episode |-> episode,
                             CustomFormatScore |-> episode.EpisodeFile[1].CustomFormatScore])
                /\ episodesToSearch' =
                     IF TriggerSearchEnabled(cfg)
                       THEN Collect(episodesToSearch, episode.ID)
                       ELSE episodesToSearch
                /\ processedCount' = processedCount + 1
                /\ IF LimitReached(cfg.BatchSize, processedCount + 1)
                     THEN /\ reachedLimit' = TRUE
                          /\ pc' = "series"
                          /\ sIdx' = sIdx + 1
                          /\ UNCHANGED eIdx
                     ELSE /\ eIdx' = eIdx + 1
                          /\ UNCHANGED << reachedLimit, pc, sIdx >>
           ELSE /\ eIdx' = eIdx + 1
                /\ UNCHANGED << lowScoreEpisodes, episodesToSearch, processedCount,
                                reachedLimit, pc, sIdx >>
  /\ UNCHANGED << proc, idx, catalog, series, episodes, movies, mIdx,
                  lowScoreMovies, moviesToSearch, i, ret, calls, warnings,
                  scanned, reports >>

\* app.go 45, 68: the range over the episodes of the series is exhausted
EpisodesExhausted ==
  /\ pc = "episodes"
  /\ eIdx > Len(episodes)
  /\ pc' = "series"
  /\ sIdx' = sIdx + 1
  /\ UNCHANGED << proc, idx, catalog, series, episodes, eIdx, lowScoreEpisodes,
                  episodesToSearch, movies, mIdx, lowScoreMovies, moviesToSearch,
                  processedCount, reachedLimit, i, ret, calls, warnings,
                  scanned, reports >>

\* app.go 31-34, 69-76: the range over series ends (exhausted, or the limit
\* was reached); the sub-batch loop starts if there is something to search,
\* else the scan returns (92)
SeriesLoopExit ==
  /\ pc = "series"
  /\ ~SeriesLoopContinues(sIdx, Len(series), reachedLimit)
  /\ IF ProceedsToTrigger(cfg, episodesToSearch, processedCount)
       THEN /\ pc' = "episodeTrigger"
            /\ i' = 0
            /\ UNCHANGED ret
       ELSE /\ pc' = "episodesReturned"
            /\ ret' = Returned(lowScoreEpisodes, NoError)
            /\ UNCHANGED i
  /\ UNCHANGED << proc, idx, catalog, series, sIdx, episodes, eIdx,
                  lowScoreEpisodes, episodesToSearch, movies, mIdx,
                  lowScoreMovies, moviesToSearch, processedCount, reachedLimit,
                  calls, warnings, scanned, reports >>

\* app.go 77-89: one sub-batch: client.TriggerEpisodeSearch(batch) succeeds
\* or fails (logged, the loop continues)
RequestEpisodeSearch ==
  /\ pc = "episodeTrigger"
  /\ i < Len(episodesToSearch)
  /\ CanSend(inflight)
  /\ inflight' = Append(inflight, Request("TriggerEpisodeSearch", cfg.SonarrInstances[idx],
                                           SearchBatch(episodesToSearch, i)))
  /\ UNCHANGED << cfg, sonarrConfig, radarrConfig,
                  mode, ticker, passLog, pass >>

TriggerEpisodeSearch(ok) ==
  /\ pc = "episodeTrigger"
  /\ i < Len(episodesToSearch)
  /\ Answered(inflight, "TriggerEpisodeSearch")
  /\ inflight' = Tail(inflight)
  /\ passLog' = Noted(passLog, ok)
  /\ LET batch == SearchBatch(episodesToSearch, i)
     IN  /\ calls' = Append(calls, Call("TriggerEpisodeSearch",
                                        cfg.SonarrInstances[idx], batch, ok))
         /\ warnings' = IF ~IsError(ClientResult(ok)) THEN warnings
                        ELSE Append(warnings, [msg |-> "failed to trigger search",
                                                arg |-> batch])
  /\ i' = AfterTrigger(i, ok, Len(episodesToSearch))
  /\ UNCHANGED << cfg, sonarrConfig, radarrConfig,
                  mode, ticker, pc, idx, catalog, series, sIdx, episodes, eIdx,
                  lowScoreEpisodes, episodesToSearch, movies, mIdx,
                  lowScoreMovies, moviesToSearch, processedCount, reachedLimit,
                  ret, scanned, reports >>

\* app.go 77, 92: the sub-batch loop ends and the scan returns
EpisodeTriggerExit ==
  /\ pc = "episodeTrigger"
  /\ i >= Len(episodesToSearch)
  /\ pc' = "episodesReturned"
  /\ ret' = Returned(lowScoreEpisodes, NoError)
  /\ UNCHANGED << proc, idx, locals, calls, warnings, scanned, reports >>


(***************************************************************************)
(* findLowScoreMovies (app.go 97-156).                                     *)
(***************************************************************************)
\* app.go 112-113
IsLowScoreMovie(movie) ==
  /\ movie.HasFile
  /\ movie.MovieFile # NilFile
  /\ movie.MovieFile[1].CustomFormatScore < 0

\* RunOnce 238-244 calls findLowScoreMovies, which calls client.GetMovies
\* (99-108)
RequestMovies ==
  /\ pc = "radarrLoop"
  /\ idx <= Len(cfg.RadarrInstances)
  /\ CanSend(inflight)
  /\ inflight' = Append(inflight, Request("GetMovies", cfg.RadarrInstances[idx], << >>))
  /\ UNCHANGED << cfg, sonarrConfig, radarrConfig,
                  mode, ticker, passLog, pass >>

GetMovies(ok, cat) ==
  /\ pc = "radarrLoop"
  /\ idx <= Len(cfg.RadarrInstances)
  /\ Answered(inflight, "GetMovies")
  /\ inflight' = Tail(inflight)
  /\ passLog' = Noted(passLog, ok)
  /\ scanned' = Append(scanned, cfg.RadarrInstances[idx].Name)
  /\ calls' = << Call("GetMovies", cfg.RadarrInstances[idx], << >>, ok) >>
  /\ warnings' = << >>
  /\ IF ~IsError(ClientResult(ok))
       THEN /\ catalog' = cat
            /\ movies' = cat
            /\ mIdx' = 1
            /\ pc' = "movies"
            /\ ret' = NoReturn
       ELSE /\ ret' = [list |-> << >>, err |-> "getting movies", isNil |-> TRUE]
            /\ pc' = "moviesReturned"
            /\ UNCHANGED << catalog, movies, mIdx >>
  /\ UNCHANGED << cfg, sonarrConfig, radarrConfig,
                  mode, ticker, idx, series, sIdx, episodes, eIdx,
                  lowScoreEpisodes, episodesToSearch, lowScoreMovies, moviesToSearch,
                  processedCount, reachedLimit, i, reports >>

\* app.go 109-132: one movie of the loop; on the batch limit the loop ends
EvaluateMovie ==
  /\ pc = "movies"
  /\ mIdx <= Len(movies)
  /\ LET movie == movies[mIdx]
     IN  IF IsLowScoreMovie(movie)
           THEN /\ lowScoreMovies' =
                     Collect(lowScoreMovies,
                            [Movie |-> movie,
                             CustomFormatScore |-> movie.MovieFile[1].CustomFormatScore])
                /\ moviesToSearch' =
                     IF TriggerSearchEnabled(cfg)
                       THEN Collect(moviesToSearch, movie.ID)
                       ELSE moviesToSearch
                /\ processedCount' = processedCount + 1
                /\ IF LimitReached(cfg.BatchSize, processedCount + 1)
                     THEN /\ pc' = "moviesScanned"
                          /\ UNCHANGED mIdx
                     ELSE /\ mIdx' = mIdx + 1
                          /\ UNCHANGED pc
           ELSE /\ mIdx' = mIdx + 1
                /\ UNCHANGED << lowScoreMovies, moviesToSearch, processedCount, pc >>
  /\ UNCHANGED << proc, idx, catalog, series, sIdx, episodes, eIdx,
                  lowScoreEpisodes, episodesToSearch, movies, reachedLimit, i,
                  ret, calls, warnings, scanned, reports >>

\* app.go 109, 132-139, 155: the range over movies is left (exhausted, or by
\* the break of the batch limit); the sub-batch loop starts if there is
\* something to search, else the scan returns
MoviesLoopExit ==
  /\ \/ pc = "movies" /\ mIdx > Len(movies)
     \/ pc = "moviesScanned"
  /\ IF ProceedsToTrigger(cfg, moviesToSearch, processedCount)
       THEN /\ pc' = "movieTrigger"
            /\ i' = 0
            /\ UNCHANGED ret
       ELSE /\ pc' = "moviesReturned"
            /\ ret' = Returned(lowScoreMovies, NoError)
            /\ UNCHANGED i
  /\ UNCHANGED << proc, idx, catalog, series, sIdx, episodes, eIdx,
                  lowScoreEpisodes, episodesToSearch, movies, mIdx,
                  lowScoreMovies, moviesToSearch, processedCount, reachedLimit,
                  calls, warnings, scanned, reports >>

\* app.go 140-152: one sub-batch: client.TriggerMovieSearch(batch)
RequestMovieSearch ==
  /\ pc = "movieTrigger"
  /\ i < Len(moviesToSearch)
  /\ CanSend(inflight)
  /\ inflight' = Append(inflight, Request("TriggerMovieSearch", cfg.RadarrInstances[idx],
                                           SearchBatch(moviesToSearch, i)))
  /\ UNCHANGED << cfg, sonarrConfig, radarrConfig,
                  mode, ticker, passLog, pass >>

TriggerMovieSearch(ok) ==
  /\ pc = "movieTrigger"
  /\ i < Len(moviesToSearch)
  /\ Answered(inflight, "TriggerMovieSearch")
  /\ inflight' = Tail(inflight)
  /\ passLog' = Noted(passLog, ok)
  /\ LET batch == SearchBatch(moviesToSearch, i)
     IN  /\ calls' = Append(calls, Call("TriggerMovieSearch",
                                        cfg.RadarrInstances[idx], batch, ok))
         /\ warnings' = IF ~IsError(ClientResult(ok)) THEN warnings
                        ELSE Append(warnings, [msg |-> "failed to trigger search",
                                                arg |-> batch])
  /\ i' = AfterTrigger(i, ok, Len(moviesToSearch))
  /\ UNCHANGED << cfg, sonarrConfig, radarrConfig,
                  mode, ticker, pc, idx, catalog, series, sIdx, episodes, eIdx,
                  lowScoreEpisodes, episodesToSearch, movies, mIdx,
                  lowScoreMovies, moviesToSearch, processedCount, reachedLimit,
                  ret, scanned, reports >>

\* app.go 140, 155: the sub-batch loop ends and the scan returns
MovieTriggerExit ==
  /\ pc = "movieTrigger"
  /\ i >= Len(moviesToSearch)
  /\ pc' = "moviesReturned"
  /\ ret' = Returned(lowScoreMovies, NoError)
  /\ UNCHANGED << proc, idx, locals, calls, warnings, scanned, reports >>

(***************************************************************************)
(* RunOnce (app.go 205-257) and the reports (159-202).                     *)
(***************************************************************************)
\* the levels of log/slog that the messages of a pass are logged at
LevelDebug == -4

LevelInfo == 0

LevelError == 8

\* config.go 47-53, 56-75: the handler that Load installs (123-127) gets
\* slog.LevelDebug whatever the configuration says; c.LogLevel is stored in
\* the configuration (133) and read by nothing but the line of app.go 214
HandlerFor(c) == [level |-> LevelDebug]

\* customHandler.Enabled (config.go 24-26)
Enabled(h, level) == level >= h.level

\* slog.Error / slog.Info through the handler: the line is written when
\* the handler is enabled for its level (config.go 24-36)
Handle(log, level, line) ==
  IF Enabled(HandlerFor(cfg), level) THEN Append(log, line) ELSE log

\* mutant of PrintLowScore: the line on triggered searches is left out when
\* no trigger call of the instance succeeded
PrintLowScoreIfSearched(list, triggerSearch, instanceName) ==
  IF Len(list) = 0
    THEN [inst |-> instanceName, kind |-> "none", n |-> 0, searched |-> FALSE]
    ELSE [inst |-> instanceName, kind |-> "found", n |-> Len(list),
          searched |-> triggerSearch
                        /\ \E k \in DOMAIN calls :
                             /\ calls[k].op \in {"TriggerEpisodeSearch", "TriggerMovieSearch"}
                             /\ calls[k].ok]

\* mutant of PrintLowScore: an empty list is reported like any other
PrintLowScoreSilent(list, triggerSearch, instanceName) ==
  [inst |-> instanceName, kind |-> "found", n |-> Len(list), searched |-> triggerSearch]

\* printLowScoreEpisodes / printLowScoreMovies, info lines (160-170, 185-195)
PrintLowScore(list, triggerSearch, instanceName) ==
  IF Len(list) = 0
    THEN [inst |-> instanceName, kind |-> "none", n |-> 0, searched |-> FALSE]
    ELSE [inst |-> instanceName, kind |-> "found", n |-> Len(list),
          searched |-> triggerSearch]

ErrorReport(instanceName) ==
  [inst |-> instanceName, kind |-> "error", n |-> 0, searched |-> FALSE]

NoInstancesReport ==
  [inst |-> << "none", 0 >>, kind |-> "no instances", n |-> 0, searched |-> FALSE]

\* app.go 225-232: the error of the scan is logged and the instance skipped,
\* or the matches are reported; then the next Sonarr instance
SonarrInstanceDone ==
  /\ pc = "episodesReturned"
  /\ IF IsError(ret.err)
       THEN /\ reports' = Handle(reports, LevelError,
                                 ErrorReport(cfg.SonarrInstances[idx].Name))
            /\ idx' = AfterScanError(idx, Len(cfg.SonarrInstances))
       ELSE /\ reports' = Handle(reports, LevelInfo,
                                 PrintLowScore(ret.list, TriggerSearchEnabled(cfg),
                                               cfg.SonarrInstances[idx].Name))
            /\ idx' = idx + 1
  /\ pc' = "sonarrLoop"
  /\ FrameCleared
  /\ ret' = NoReturn
  /\ calls' = << >>
  /\ warnings' = << >>
  /\ UNCHANGED << proc, scanned >>

\* app.go 217-236: all Sonarr instances are done
SonarrLoopExit ==
  /\ pc = "sonarrLoop"
  /\ idx > Len(cfg.SonarrInstances)
  /\ pc' = "radarrLoop"
  /\ idx' = 1
  /\ UNCHANGED << proc, locals, ret, calls, warnings, scanned, reports >>

\* app.go 244-251
RadarrInstanceDone ==
  /\ pc = "moviesReturned"
  /\ IF IsError(ret.err)
       THEN /\ reports' = Handle(reports, LevelError,
                                 ErrorReport(cfg.RadarrInstances[idx].Name))
            /\ idx' = AfterScanError(idx, Len(cfg.RadarrInstances))
       ELSE /\ reports' = Handle(reports, LevelInfo,
                                 PrintLowScore(ret.list, TriggerSearchEnabled(cfg),
                                               cfg.RadarrInstances[idx].Name))
            /\ idx' = idx + 1
  /\ pc' = "radarrLoop"
  /\ FrameCleared
  /\ ret' = NoReturn
  /\ calls' = << >>
  /\ warnings' = << >>
  /\ UNCHANGED << proc, scanned >>

\* mutant of AfterRunOnce: a pass with a failed call ends the daemon
AfterRunOnceFatal(m, log) ==
  IF m = "daemon" /\ ~log[Len(log)] THEN "ticking" ELSE "done"

\* RunOnce returns no value (app.go 205): after it main.go 23 ends, and
\* RunDaemon (268, 271-274) is in its loop, whatever the pass logged
AfterRunOnce(m, log) == IF m = "daemon" THEN "ticking" ELSE "done"

\* mutant of NoInstances: the condition is never reported
NoInstancesNever(c) == FALSE

\* app.go 254: no instance of either type is configured
NoInstances(c) == Len(c.SonarrInstances) = 0 /\ Len(c.RadarrInstances) = 0

\* app.go 236, 252-257: all Radarr instances are done and RunOnce returns,
\* to main.go 23 or into the loop of RunDaemon (271)
RunOnceReturn ==
  /\ pc = "radarrLoop"
  /\ idx > Len(cfg.RadarrInstances)
  /\ pc' = AfterRunOnce(mode, passLog)
  /\ reports' = IF NoInstances(cfg)
                  THEN Handle(reports, LevelInfo, NoInstancesReport)
                  ELSE reports
  /\ UNCHANGED << proc, idx, locals, ret, calls, warnings, scanned >>

(***************************************************************************)
(* RunDaemon (app.go 260-275) and the daemon command (main.go 27-46).      *)
(***************************************************************************)
\* mutant of TickerStarts: any interval that parses starts a ticker
TickerStartsAlways(d) == TRUE

\* time.NewTicker(d) panics unless d is positive
TickerStarts(d) == d > 0

\* app.go 261-268: the ticker is created, then RunOnce is called
NewTicker ==
  /\ pc = "daemon"
  /\ pc' = IF TickerStarts(cfg.Interval) THEN "idle" ELSE "panicked"
  /\ UNCHANGED << proc, idx, locals, ret, calls, warnings, scanned, reports >>

\* mutant of TickBuffered: ticker.C holds every tick that fired
TickBufferedAll(t) == t + 1

\* ticker.C (app.go 264, 271) is a channel with room for one tick: the
\* timer sends without blocking, and a tick that finds the channel full is
\* dropped (t is the number of ticks waiting)
TickBuffered(t) == Min(t + 1, 1)

\* the runtime timer of the ticker: a tick is put into ticker.C, or dropped
\* if the one buffered tick was not received yet
TickFires ==
  /\ mode = "daemon"
  /\ pc \notin {"daemon", "panicked", "exited"}
  /\ ticker' = TickBuffered(ticker)
  /\ UNCHANGED << cfg, sonarrConfig, radarrConfig,
                  mode, passLog, inflight, pass >>

\* mutant of TickReceived: the loop does not wait for a tick
TickReceivedAlways(t) == TRUE

\* app.go 271: the range over ticker.C receives a tick
TickReceived(t) == t > 0

\* app.go 271-273: the loop of RunDaemon takes the tick and calls RunOnce
TickReceive ==
  /\ pc = "ticking"
  /\ TickReceived(ticker)
  /\ ticker' = 0
  /\ pc' = "idle"
  /\ UNCHANGED << cfg, sonarrConfig, radarrConfig,
                  mode, passLog, inflight, idx, locals, ret, calls,
                  warnings, scanned, reports >>

\* main.go 35-42: the goroutine of the signal handler receives SIGINT or
\* SIGTERM, closes the log and calls os.Exit(0), wherever the main
\* goroutine is
Shutdown ==
  /\ mode = "daemon"
  /\ pc \notin {"panicked", "exited"}
  /\ pc' = "exited"
  /\ UNCHANGED << proc, idx, locals, ret, calls, warnings, scanned, reports >>

(***************************************************************************)
(* Specifications.                                                         *)
(***************************************************************************)
AllCounts ==
  { n \in (0..MaxInstances) \X (0..MaxInstances) : n[1] + n[2] <= MaxInstances }

Init == InitWith(Configs(AllCounts, BatchSizes, {DefaultInterval}), "once")

FetchSeries ==
  /\ pc = "sonarrLoop"
  /\ inflight # << >>
  /\ \E ok \in BOOLEAN, cat \in SmallSeriesCatalogs : GetSeries(ok, cat)

FetchEpisodes == \E ok \in BOOLEAN : GetEpisodes(ok)

SearchEpisodes == \E ok \in BOOLEAN : TriggerEpisodeSearch(ok)

FetchMovies ==
  /\ pc = "radarrLoop"
  /\ inflight # << >>
  /\ \E ok \in BOOLEAN, cat \in SmallMovieCatalogs : GetMovies(ok, cat)

SearchMovies == \E ok \in BOOLEAN : TriggerMovieSearch(ok)

Next ==
  \/ RunOnceStart
  \/ RequestSeries
  \/ FetchSeries
  \/ RequestEpisodes
  \/ FetchEpisodes
  \/ EvaluateEpisode
  \/ EpisodesExhausted
  \/ SeriesLoopExit
  \/ RequestEpisodeSearch
  \/ SearchEpisodes
  \/ EpisodeTriggerExit
  \/ SonarrInstanceDone
  \/ SonarrLoopExit
  \/ RequestMovies
  \/ FetchMovies
  \/ EvaluateMovie
  \/ MoviesLoopExit
  \/ RequestMovieSearch
  \/ SearchMovies
  \/ MovieTriggerExit
  \/ RadarrInstanceDone
  \/ RunOnceReturn

Spec == Init /\ [][Next]_vars


\* one scan: a single configured instance of either service type, the rich
\* catalogs, and a batch size beyond one sub-batch
OneInstance == { << 1, 0 >>, << 0, 1 >> }

ScanInit ==
  InitWith(Configs(OneInstance, BatchSizes \cup {DefaultSearchBatchSize + 1},
                   {DefaultInterval}), "once")

ScanFetchSeries ==
  /\ pc = "sonarrLoop"
  /\ inflight # << >>
  /\ \E ok \in BOOLEAN, cat \in RichSeriesCatalogs : GetSeries(ok, cat)

ScanFetchMovies ==
  /\ pc = "radarrLoop"
  /\ inflight # << >>
  /\ \E ok \in BOOLEAN, cat \in RichMovieCatalogs : GetMovies(ok, cat)

ScanNext ==
  \/ RunOnceStart
  \/ RequestSeries
  \/ ScanFetchSeries
  \/ RequestEpisodes
  \/ FetchEpisodes
  \/ EvaluateEpisode
  \/ EpisodesExhausted
  \/ SeriesLoopExit
  \/ RequestEpisodeSearch
  \/ SearchEpisodes
  \/ EpisodeTriggerExit
  \/ SonarrInstanceDone
  \/ SonarrLoopExit
  \/ RequestMovies
  \/ ScanFetchMovies
  \/ EvaluateMovie
  \/ MoviesLoopExit
  \/ RequestMovieSearch
  \/ SearchMovies
  \/ MovieTriggerExit
  \/ RadarrInstanceDone
  \/ RunOnceReturn

ScanSpec == ScanInit /\ [][ScanNext]_vars

\* one pass over two instances of each service type whose catalogs mix
\* low-score and other items or hold one item more than a sub-batch
OrderCounts == { << 2, 2 >> }

MixedKinds == << LowKind, OkKind, LowKind >>

LongKinds == [j \in 1..(DefaultSearchBatchSize + 1) |-> LowKind]

OrderSeriesCatalogs ==
  { MkSeriesCatalog(<< MixedKinds, << LowKind >> >>), MkSeriesCatalog(<< LongKinds >>) }

OrderMovieCatalogs == { MkMovieCatalog(MixedKinds), MkMovieCatalog(LongKinds) }

OrderInit == InitWith(Configs(OrderCounts, {0, MaxBatch}, {DefaultInterval}), "once")

OrderFetchSeries ==
  /\ pc = "sonarrLoop"
  /\ inflight # << >>
  /\ \E ok \in BOOLEAN, cat \in OrderSeriesCatalogs : GetSeries(ok, cat)

OrderFetchMovies ==
  /\ pc = "radarrLoop"
  /\ inflight # << >>
  /\ \E ok \in BOOLEAN, cat \in OrderMovieCatalogs : GetMovies(ok, cat)

OrderNext ==
  \/ RunOnceStart
  \/ RequestSeries
  \/ OrderFetchSeries
  \/ RequestEpisodes
  \/ FetchEpisodes
  \/ EvaluateEpisode
  \/ EpisodesExhausted
  \/ SeriesLoopExit
  \/ RequestEpisodeSearch
  \/ SearchEpisodes
  \/ EpisodeTriggerExit
  \/ SonarrInstanceDone
  \/ SonarrLoopExit
  \/ RequestMovies
  \/ OrderFetchMovies
  \/ EvaluateMovie
  \/ MoviesLoopExit
  \/ RequestMovieSearch
  \/ SearchMovies
  \/ MovieTriggerExit
  \/ RadarrInstanceDone
  \/ RunOnceReturn

OrderSpec == OrderInit /\ [][OrderNext]_vars

\* the same pass with a main goroutine that runs while it can: every client
\* call returns, with a result or an error (the HTTP client has a timeout,
\* sonarr/client.go 25-27)
RunOnceSpec == OrderInit /\ [][OrderNext]_vars /\ WF_vars(OrderNext)

\* the daemon: up to two instances, catalogs of at most one item or of one
\* item more than a sub-batch holds, and any interval that parses
DaemonCounts == { << 0, 0 >>, << 1, 0 >>, << 0, 1 >>, << 1, 1 >> }

DaemonSeriesCatalogs ==
  { MkSeriesCatalog(kk) : kk \in SeqsUpTo(SeqsUpTo({LowKind}, 1), 1) }

DaemonMovieCatalogs == { MkMovieCatalog(kinds) : kinds \in { << >>, LongKinds } }

DaemonInit == InitWith(Configs(DaemonCounts, {0, 1}, Intervals), "daemon")

DaemonFetchSeries ==
  /\ pc = "sonarrLoop"
  /\ inflight # << >>
  /\ \E ok \in BOOLEAN, cat \in DaemonSeriesCatalogs : GetSeries(ok, cat)

DaemonFetchMovies ==
  /\ pc = "radarrLoop"
  /\ inflight # << >>
  /\ \E ok \in BOOLEAN, cat \in DaemonMovieCatalogs : GetMovies(ok, cat)

\* the steps of the main goroutine
MainStep ==
  \/ NewTicker
  \/ TickReceive
  \/ RunOnceStart
  \/ RequestSeries
  \/ DaemonFetchSeries
  \/ RequestEpisodes
  \/ FetchEpisodes
  \/ EvaluateEpisode
  \/ EpisodesExhausted
  \/ SeriesLoopExit
  \/ RequestEpisodeSearch
  \/ SearchEpisodes
  \/ EpisodeTriggerExit
  \/ SonarrInstanceDone
  \/ SonarrLoopExit
  \/ RequestMovies
  \/ DaemonFetchMovies
  \/ EvaluateMovie
  \/ MoviesLoopExit
  \/ RequestMovieSearch
  \/ SearchMovies
  \/ MovieTriggerExit
  \/ RadarrInstanceDone
  \/ RunOnceReturn

DaemonNext ==
  \/ MainStep
  \/ TickFires
  \/ Shutdown

\* the main goroutine runs while it can (every client call returns: the
\* HTTP client has a timeout, sonarr/client.go 25-27) and the timer of the
\* ticker keeps firing; a signal need never come
DaemonSpec ==
  DaemonInit /\ [][DaemonNext]_vars /\ WF_vars(MainStep) /\ WF_vars(TickFires)


(***************************************************************************)
(* One RunOnce under each log level the configuration can name.            *)
(***************************************************************************)
LogConfigs ==
  { [c EXCEPT !.LogLevel = l] :
      c \in Configs(DaemonCounts, {0, 1}, {DefaultInterval}), l \in LogLevels }

LogInit == InitWith(LogConfigs, "once")

LogNext ==
  \/ RunOnceStart
  \/ RequestSeries
  \/ DaemonFetchSeries
  \/ RequestEpisodes
  \/ FetchEpisodes
  \/ EvaluateEpisode
  \/ EpisodesExhausted
  \/ SeriesLoopExit
  \/ RequestEpisodeSearch
  \/ SearchEpisodes
  \/ EpisodeTriggerExit
  \/ SonarrInstanceDone
  \/ SonarrLoopExit
  \/ RequestMovies
  \/ DaemonFetchMovies
  \/ EvaluateMovie
  \/ MoviesLoopExit
  \/ RequestMovieSearch
  \/ SearchMovies
  \/ MovieTriggerExit
  \/ RadarrInstanceDone
  \/ RunOnceReturn

LogSpec == LogInit /\ [][LogNext]_vars


(***************************************************************************)
(* The trigger operations of the clients, called on their own as the       *)
(* client tests call them: TriggerEpisodeSearch (sonarr/client.go 110-169) *)
(* and TriggerMovieSearch (radarr client, 90-149).                          *)
(***************************************************************************)
\* client.Do returned an error: there is no response and no status
NoResponse == 0

StatusOK == 200

StatusCreated == 201

StatusAccepted == 202

StatusBadRequest == 400

Statuses == {StatusOK, StatusCreated, StatusAccepted, StatusBadRequest}

\* JSON objects a service may answer with: a command, or an error object
CommandObjects ==
  { [id |-> n, name |-> nm, commandName |-> nm, status |-> "queued"] :
      n \in 1..MaxSmall, nm \in {"EpisodeSearch", "MoviesSearch"} }

ErrorObject == [error |-> "bad request"]

\* response bodies: << >> is a body that is no JSON value (it may be empty)
Bodies == { << >> } \cup { << o >> : o \in CommandObjects \cup {ErrorObject} }

Responses == [status : Statuses \cup {NoResponse}, body : Bodies]

\* the ID lists the operations are called with
IDLists == SeqsUpTo(1..MaxSmall, MaxSmall)

\* mutant of HasIDs: the empty list is sent like any other
HasIDsAlways(ids) == TRUE

\* client.go 111-113
HasIDs(ids) == Len(ids) # 0

\* mutant of StatusPasses: only 201 Created is taken
StatusPassesCreatedOnly(status) == status = StatusCreated

\* client.go 151: the statuses that are no error
StatusPasses(status) == status = StatusCreated \/ status = StatusOK

\* json.Unmarshal into types.CommandResponse (client.go 163-166, the tags of
\* the type): a key the object does not have leaves the zero value
CommandResponse(o) ==
  [ID |-> IF "id" \in DOMAIN o THEN o.id ELSE 0,
   Name |-> IF "name" \in DOMAIN o THEN o.name ELSE "",
   CommandName |-> IF "commandName" \in DOMAIN o THEN o.commandName ELSE "",
   Status |-> IF "status" \in DOMAIN o THEN o.status ELSE ""]

Failure(err) == [list |-> << >>, err |-> err, isNil |-> TRUE]

\* client.go 144-168: what the operation returns for a response; the
\* pointer it returns is the list of no or one command
CommandResult(resp) ==
  IF resp.status = NoResponse THEN Failure("making request")
  ELSE IF ~StatusPasses(resp.status) THEN Failure("API request failed")
  ELSE IF resp.body = << >> THEN Failure("unmarshaling command response")
  ELSE [list |-> << CommandResponse(resp.body[1]) >>, err |-> NoError, isNil |-> FALSE]

IsResponse(msg) == "status" \in DOMAIN msg

\* the instance a trigger operation belongs to
ClientOf(op) ==
  IF op = "TriggerEpisodeSearch" THEN cfg.SonarrInstances[1] ELSE cfg.RadarrInstances[1]

\* client.go 110-144: the operation is called; it returns at once for the
\* empty list, else it sends its request
CallTriggerSearch(op, ids) ==
  /\ pc = "client"
  /\ CanSend(inflight)
  /\ IF HasIDs(ids)
       THEN /\ inflight' = << Request(op, ClientOf(op), ids) >>
            /\ calls' = << >>
            /\ ret' = NoReturn
       ELSE /\ calls' = << Call(op, ClientOf(op), ids, FALSE) >>
            /\ ret' = Failure("no IDs provided")
            /\ UNCHANGED inflight
  /\ UNCHANGED << cfg, sonarrConfig, radarrConfig,
                  mode, ticker, passLog, pc, idx, locals, warnings, scanned,
                  reports >>

\* the service, or the transport, answers the request on the wire
ServiceResponds(resp) ==
  /\ pc = "client"
  /\ inflight # << >>
  /\ ~IsResponse(inflight[1])
  /\ inflight' = << [op |-> inflight[1].op, inst |-> inflight[1].inst,
                      arg |-> inflight[1].arg, status |-> resp.status,
                      body |-> resp.body] >>
  /\ UNCHANGED << cfg, sonarrConfig, radarrConfig,
                  mode, ticker, passLog, pc, idx, locals, ret, calls, warnings,
                  scanned, reports >>

\* client.go 144-168: client.Do returns and the operation returns
TriggerSearchReturns ==
  /\ pc = "client"
  /\ inflight # << >>
  /\ IsResponse(inflight[1])
  /\ inflight' = << >>
  /\ ret' = CommandResult(inflight[1])
  /\ calls' = << [op |-> inflight[1].op, inst |-> inflight[1].inst,
                   arg |-> inflight[1].arg,
                   ok |-> ~IsError(CommandResult(inflight[1]).err)] >>
  /\ UNCHANGED << cfg, sonarrConfig, radarrConfig,
                  mode, ticker, passLog, pc, idx, locals, warnings, scanned,
                  reports >>

ClientInit == InitWith(Configs({<< 1, 1 >>}, {0}, {DefaultInterval}), "client")

ClientCalls ==
  \E op \in {"TriggerEpisodeSearch", "TriggerMovieSearch"}, ids \in IDLists :
    CallTriggerSearch(op, ids)

ServiceAnswers == \E resp \in Responses : ServiceResponds(resp)

ClientNext == ClientCalls \/ ServiceAnswers \/ TriggerSearchReturns

ClientSpec == ClientInit /\ [][ClientNext]_vars

(***************************************************************************)
(* config.Load, the instance lists (config.go 136-196).                    *)
(***************************************************************************)
\* the longest list of instances of one service in the settings
MaxEntries == 11

\* Go strings as their bytes: "default", "instance", "main"
DefaultName == << 100, 101, 102, 97, 117, 108, 116 >>

InstancePrefix == << 105, 110, 115, 116, 97, 110, 99, 101 >>

MainName == << 109, 97, 105, 110 >>

\* the code point of '0'
Zero == 48

\* string(rune(r)): the UTF-8 encoding of code point r, of U+FFFD when r is
\* not a valid code point
RuneString(r) ==
  IF r < 0 \/ r > 1114111 \/ (r >= 55296 /\ r <= 57343)
    THEN << 239, 191, 189 >>
    ELSE IF r < 128 THEN << r >>
    ELSE IF r < 2048 THEN << 192 + (r \div 64), 128 + (r % 64) >>
    ELSE IF r < 65536
      THEN << 224 + (r \div 4096), 128 + ((r \div 64) % 64), 128 + (r % 64) >>
      ELSE << 240 + (r \div 262144), 128 + ((r \div 4096) % 64),
              128 + ((r \div 64) % 64), 128 + (r % 64) >>

\* config.go 141-145 (170-175 alike): the name of the instance at index k
\* of its list when the settings give none
InstanceName(k) ==
  IF k > 0 THEN InstancePrefix \o RuneString(Zero + k) ELSE DefaultName

\* an entry of an instance list of the settings: the keys it has
Entry(svc, k, hasName, hasBaseURL, hasAPIKey) ==
  [hasName |-> hasName, name |-> IF hasName THEN MainName ELSE << >>,
   hasBaseURL |-> hasBaseURL, baseurl |-> << "url", svc, k >>,
   hasAPIKey |-> hasAPIKey, apikey |-> << "key", svc, k >>]

\* the instance lists of the settings: up to MaxEntries entries without a
\* name, or a short list one entry of which has a name or lacks a key
EntryLists(svc) ==
  { [k \in 1..n |-> Entry(svc, k, FALSE, TRUE, TRUE)] : n \in 0..MaxEntries }
    \cup { [k \in 1..MaxSmall |-> Entry(svc, k, k = p, k # q, k # r)] :
             p \in 0..MaxSmall, q \in 0..MaxSmall, r \in 0..MaxSmall }

LoadInit ==
  /\ cfg \in Configs({ << 0, 0 >> }, {0}, {DefaultInterval})
  /\ sonarrConfig \in EntryLists("sonarr")
  /\ radarrConfig \in EntryLists("radarr")
  /\ mode = "load"
  /\ ticker = 0
  /\ passLog = << >>
  /\ inflight = << >>
  /\ pc = "loadSonarr"
  /\ idx = 0
  /\ catalog = << >>
  /\ series = << >>
  /\ sIdx = 0
  /\ episodes = << >>
  /\ eIdx = 0
  /\ lowScoreEpisodes = << >>
  /\ episodesToSearch = << >>
  /\ movies = << >>
  /\ mIdx = 0
  /\ lowScoreMovies = << >>
  /\ moviesToSearch = << >>
  /\ processedCount = 0
  /\ reachedLimit = FALSE
  /\ i = 0
  /\ ret = NoReturn
  /\ calls = << >>
  /\ warnings = << >>
  /\ scanned = << >>
  /\ reports = << >>

\* config.go 138-163, 168-193: one iteration of the range over the list:
\* the name is the entry's or the default for index i, a missing baseurl or
\* apikey ends the process (log.Fatalf), else the instance is appended
LoadInstance(at, list, instances) ==
  /\ pc = at
  /\ i < Len(list)
  /\ LET instance == list[i + 1]
         name == IF instance.hasName THEN instance.name ELSE InstanceName(i)
     IN  IF ~instance.hasBaseURL \/ ~instance.hasAPIKey
           THEN /\ pc' = "exited"
                /\ warnings' =
                     Append(warnings,
                            [msg |-> IF ~instance.hasBaseURL THEN "missing baseurl"
                                     ELSE "missing apikey",
                             arg |-> name])
                /\ UNCHANGED << cfg, i >>
           ELSE /\ cfg' = [cfg EXCEPT ![instances] =
                             Append(@, [Name |-> name, BaseURL |-> instance.baseurl,
                                        APIKey |-> instance.apikey])]
                /\ i' = i + 1
                /\ UNCHANGED << pc, warnings >>
  /\ UNCHANGED << sonarrConfig, radarrConfig, mode, ticker, passLog, inflight, idx,
                  catalog, series, sIdx, episodes, eIdx, lowScoreEpisodes,
                  episodesToSearch, movies, mIdx, lowScoreMovies, moviesToSearch,
                  processedCount, reachedLimit, ret, calls, scanned, reports >>

\* the range over a list is exhausted
LoadListDone(at, list, next) ==
  /\ pc = at
  /\ i >= Len(list)
  /\ pc' = next
  /\ i' = 0
  /\ UNCHANGED << proc, idx, catalog, series, sIdx, episodes, eIdx,
                  lowScoreEpisodes, episodesToSearch, movies, mIdx, lowScoreMovies,
                  moviesToSearch, processedCount, reachedLimit, ret, calls,
                  warnings, scanned, reports >>

LoadSonarrInstance == LoadInstance("loadSonarr", sonarrConfig, "SonarrInstances")

LoadSonarrDone == LoadListDone("loadSonarr", sonarrConfig, "loadRadarr")

LoadRadarrInstance == LoadInstance("loadRadarr", radarrConfig, "RadarrInstances")

\* config.go 196: Load returns the configuration
LoadReturn == LoadListDone("loadRadarr", radarrConfig, "loaded")

LoadNext ==
  \/ LoadSonarrInstance
  \/ LoadSonarrDone
  \/ LoadRadarrInstance
  \/ LoadReturn

LoadSpec == LoadInit /\ [][LoadNext]_vars


(***************************************************************************)
(* Properties.  They are stated on the catalog, the call log and the       *)
(* returned value, not through the operators of the scan.                  *)
(***************************************************************************)
RECURSIVE Flatten(_)
Flatten(ss) == IF ss = << >> THEN << >> ELSE Head(ss) \o Flatten(Tail(ss))

Range(q) == { q[k] : k \in DOMAIN q }

CeilDiv(a, b) == (a + b - 1) \div b

\* the score filter in the words of the specification (4.1)
LowScoreLeaf(hasFile, file) ==
  hasFile = TRUE /\ file # NilFile /\ file[1].CustomFormatScore < 0

TopLevelOk == Len(calls) > 0 /\ calls[1].ok

EpisodesReturnedOk == pc = "episodesReturned" /\ TopLevelOk

MoviesReturnedOk == pc = "moviesReturned" /\ TopLevelOk

CallsOf(ops) == SelectSeq(calls, LAMBDA c : c.op \in ops)

TriggerCalls == CallsOf({"TriggerEpisodeSearch", "TriggerMovieSearch"})

EpisodeListCalls == CallsOf({"GetEpisodes"})

\* series whose episode listing failed in the running scan
FailedSeries == { c.arg[1] : c \in { d \in Range(EpisodeListCalls) : ~d.ok } }

\* the episodes the scan can discover, in discovery order: series in
\* listing order, episodes in listing order, without the series whose
\* listing failed
DiscoverableEpisodes ==
  Flatten([p \in 1..Len(catalog) |->
             IF catalog[p].ID \in FailedSeries THEN << >> ELSE catalog[p].Episodes])

EligibleEpisodes ==
  SelectSeq(DiscoverableEpisodes, LAMBDA e : LowScoreLeaf(e.HasFile, e.EpisodeFile))

EligibleMovies ==
  SelectSeq(catalog, LAMBDA m : LowScoreLeaf(m.HasFile, m.MovieFile))

MatchedEpisodes(list) == [k \in 1..Len(list) |-> list[k].Episode]

MatchedMovies(list) == [k \in 1..Len(list) |-> list[k].Movie]

IDsOf(items) == [k \in 1..Len(items) |-> items[k].ID]

AllEpisodes(cat) == Flatten([p \in 1..Len(cat) |-> cat[p].Episodes])

\* C1: a match is an item of the catalog with hasFile true, file metadata
\* present and a strictly negative file score, and records that score; the
\* pending-search list holds IDs of matches only; a scan whose top-level
\* listing succeeded returns no error
C1_OnlyLowScoreMatched ==
  /\ \A k \in DOMAIN lowScoreEpisodes :
       LET m == lowScoreEpisodes[k]
       IN  /\ m.Episode \in Range(AllEpisodes(catalog))
           /\ m.Series.ID = m.Episode.SeriesID
           /\ m.Episode.HasFile = TRUE
           /\ m.Episode.EpisodeFile # NilFile
           /\ m.Episode.EpisodeFile[1].CustomFormatScore < 0
           /\ m.CustomFormatScore = m.Episode.EpisodeFile[1].CustomFormatScore
  /\ \A k \in DOMAIN lowScoreMovies :
       LET m == lowScoreMovies[k]
       IN  /\ m.Movie \in Range(catalog)
           /\ m.Movie.HasFile = TRUE
           /\ m.Movie.MovieFile # NilFile
           /\ m.Movie.MovieFile[1].CustomFormatScore < 0
           /\ m.CustomFormatScore = m.Movie.MovieFile[1].CustomFormatScore
  /\ Range(episodesToSearch) \subseteq Range(IDsOf(MatchedEpisodes(lowScoreEpisodes)))
  /\ Range(moviesToSearch) \subseteq Range(IDsOf(MatchedMovies(lowScoreMovies)))
  /\ EpisodesReturnedOk => ret.err = NoError /\ ret.list = lowScoreEpisodes
  /\ MoviesReturnedOk => ret.err = NoError /\ ret.list = lowScoreMovies

\* a scan returned a match although its catalog also holds an item with
\* negative-score metadata and hasFile false, and an item without metadata
C1_Witness ==
  /\ MoviesReturnedOk
  /\ mIdx > Len(movies)
  /\ Len(ret.list) = 1
  /\ \E m \in Range(catalog) :
       ~m.HasFile /\ m.MovieFile # NilFile /\ m.MovieFile[1].CustomFormatScore < 0
  /\ \E m \in Range(catalog) : m.HasFile /\ m.MovieFile = NilFile

\* the low-score episodes of the whole catalog, in listing order
CatalogEligibleEpisodes ==
  SelectSeq(AllEpisodes(catalog), LAMBDA e : LowScoreLeaf(e.HasFile, e.EpisodeFile))

\* C2 as stated: with batch size N > 0 and at least N low-score items in
\* the catalog (series in listing order, episodes in listing order within
\* each series, or movies in listing order), the scan returns exactly the
\* first N of them
C2_FirstNOfCatalog ==
  /\ (EpisodesReturnedOk /\ cfg.BatchSize > 0
        /\ Len(CatalogEligibleEpisodes) >= cfg.BatchSize)
       => MatchedEpisodes(ret.list) = SubSeq(CatalogEligibleEpisodes, 1, cfg.BatchSize)
  /\ (MoviesReturnedOk /\ cfg.BatchSize > 0 /\ Len(EligibleMovies) >= cfg.BatchSize)
       => MatchedMovies(ret.list) = SubSeq(EligibleMovies, 1, cfg.BatchSize)

\* C2 (amended): with batch size N > 0 and at least N low-score items among
\* the items the scan can discover (the episodes of the series whose episode
\* listing does not fail, or the movies), the scan returns exactly the first
\* N of these, in discovery order
C2_FirstNEligible ==
  /\ (EpisodesReturnedOk /\ cfg.BatchSize > 0 /\ Len(EligibleEpisodes) >= cfg.BatchSize)
       => MatchedEpisodes(ret.list) = SubSeq(EligibleEpisodes, 1, cfg.BatchSize)
  /\ (MoviesReturnedOk /\ cfg.BatchSize > 0 /\ Len(EligibleMovies) >= cfg.BatchSize)
       => MatchedMovies(ret.list) = SubSeq(EligibleMovies, 1, cfg.BatchSize)

\* a scan with batch size 2 returned two episodes of different series and
\* left a third eligible episode out
C2_Witness ==
  /\ EpisodesReturnedOk
  /\ cfg.BatchSize = 2
  /\ Len(EligibleEpisodes) > 2
  /\ Len(ret.list) = 2
  /\ ret.list[1].Series # ret.list[2].Series

LimitHit == cfg.BatchSize > 0 /\ processedCount >= cfg.BatchSize

\* C3: once the processed counter has reached a positive batch size, no
\* episode listing is called, no item is evaluated and no match is added:
\* the scan leaves its loop for the sub-batch loop or the return, and the
\* only calls still made are search triggers
C3_StopAtLimit ==
  [][ LimitHit =>
        /\ pc \in {"series", "moviesScanned", "episodeTrigger", "movieTrigger",
                   "episodesReturned", "moviesReturned"}
        /\ pc \in {"series", "moviesScanned"}
             => pc' \in {"episodeTrigger", "movieTrigger",
                         "episodesReturned", "moviesReturned"}
        /\ (calls' # calls /\ calls' # << >>)
             => calls'[Len(calls')].op \in {"TriggerEpisodeSearch", "TriggerMovieSearch"}
        /\ pc' \notin {"sonarrLoop", "radarrLoop"}
             => /\ processedCount' = processedCount
                /\ lowScoreEpisodes' = lowScoreEpisodes
                /\ lowScoreMovies' = lowScoreMovies
                /\ << sIdx, eIdx, mIdx >>' = << sIdx, eIdx, mIdx >>
    ]_vars

\* a scan returned at the batch limit with a series never listed and an
\* eligible episode never matched
C3_Witness ==
  /\ EpisodesReturnedOk
  /\ LimitHit
  /\ Len(EpisodeListCalls) < Len(series)
  /\ Len(EligibleEpisodes) > Len(ret.list)


\* the IDs of the matches the scan returned
CollectedIDs ==
  IF pc = "episodesReturned" THEN IDsOf(MatchedEpisodes(ret.list))
                             ELSE IDsOf(MatchedMovies(ret.list))

ScanReturnedOk == EpisodesReturnedOk \/ MoviesReturnedOk

TriggerArgs == [k \in 1..Len(TriggerCalls) |-> TriggerCalls[k].arg]

\* C4: with trigger-search enabled and K >= 1 collected IDs, exactly
\* ceil(K/C) trigger calls are issued, failed or not, each with 1..C IDs,
\* and their ID lists concatenated in call order are the collected ID list
C4_ChunkedTriggers ==
  (ScanReturnedOk /\ cfg.TriggerSearch /\ Len(CollectedIDs) >= 1)
    => /\ Len(TriggerCalls) = CeilDiv(Len(CollectedIDs), DefaultSearchBatchSize)
       /\ \A k \in DOMAIN TriggerCalls :
            /\ Len(TriggerCalls[k].arg) >= 1
            /\ Len(TriggerCalls[k].arg) <= DefaultSearchBatchSize
       /\ Flatten(TriggerArgs) = CollectedIDs

\* a scan sent three sub-batches, the first of which failed and the last of
\* which is shorter than the chunk size
C4_Witness ==
  /\ ScanReturnedOk
  /\ cfg.TriggerSearch
  /\ Len(TriggerCalls) = 3
  /\ ~TriggerCalls[1].ok
  /\ Len(TriggerCalls[3].arg) < DefaultSearchBatchSize

\* C5: with trigger-search disabled, or as long as the scan has collected
\* no match, no search-trigger call is issued
C5_NoTriggerWhenDisabled ==
  (~cfg.TriggerSearch \/ (Len(lowScoreEpisodes) = 0 /\ Len(lowScoreMovies) = 0))
    => Len(TriggerCalls) = 0

\* a scan with trigger-search disabled returned more matches than one
\* sub-batch holds
C5_Witness ==
  /\ ScanReturnedOk
  /\ ~cfg.TriggerSearch
  /\ Len(ret.list) > DefaultSearchBatchSize

TriggerWarnings == SelectSeq(warnings, LAMBDA w : w.msg = "failed to trigger search")

\* C6: a failed sub-batch is logged once and not sent again, and the
\* sub-batches after it are all sent, in list order
C6_TriggerFailureIsolated ==
  (ScanReturnedOk /\ cfg.TriggerSearch)
    => /\ \A k \in DOMAIN TriggerCalls :
            ~TriggerCalls[k].ok
              => /\ \E w \in Range(TriggerWarnings) : w.arg = TriggerCalls[k].arg
                 /\ \A j \in DOMAIN TriggerCalls :
                      j # k => TriggerCalls[j].arg # TriggerCalls[k].arg
                 /\ Flatten(SubSeq(TriggerArgs, k + 1, Len(TriggerArgs)))
                      = SubSeq(CollectedIDs, k * DefaultSearchBatchSize + 1,
                               Len(CollectedIDs))
       /\ Len(TriggerWarnings) = Len(SelectSeq(TriggerCalls, LAMBDA c : ~c.ok))

\* a scan whose first sub-batch failed sent the second one
C6_Witness ==
  /\ ScanReturnedOk
  /\ Len(TriggerCalls) >= 2
  /\ ~TriggerCalls[1].ok
  /\ TriggerCalls[2].ok
  /\ Len(warnings) = 1


EpisodeWarnings == SelectSeq(warnings, LAMBDA w : w.msg = "failed to get episodes")

\* the last call of the log is an episode listing that failed
EpisodeListingFailed(log) ==
  /\ log # << >>
  /\ log[Len(log)].op = "GetEpisodes"
  /\ ~log[Len(log)].ok

\* C7: a failed episode listing adds no match and no pending-search ID and
\* leaves the processed counter; the scan goes on with the next series in
\* listing order and returns without error: every series is listed, in
\* listing order, unless the batch limit ends the scan
C7_SeriesFailureSkipped ==
  /\ [](EpisodesReturnedOk
          => /\ ret.err = NoError
             /\ \A k \in DOMAIN ret.list : ret.list[k].Series.ID \notin FailedSeries
             /\ \A e \in Range(AllEpisodes(catalog)) :
                  e.SeriesID \in FailedSeries => e.ID \notin Range(episodesToSearch)
             /\ processedCount = Len(ret.list)
             /\ Len(EpisodeWarnings) = Cardinality(FailedSeries)
             /\ LET listed == [k \in 1..Len(EpisodeListCalls) |-> EpisodeListCalls[k].arg[1]]
                IN  /\ listed = SubSeq(IDsOf(series), 1, Len(listed))
                    /\ Len(listed) = Len(series) \/ LimitHit)
  /\ [][ (calls' # calls /\ EpisodeListingFailed(calls'))
           => /\ lowScoreEpisodes' = lowScoreEpisodes
              /\ episodesToSearch' = episodesToSearch
              /\ processedCount' = processedCount
              /\ sIdx' = sIdx + 1
              /\ pc' = "series"
       ]_vars

\* the listing of the first series, which holds an eligible episode, failed
\* and the scan returned a match of a later series
C7_Witness ==
  /\ EpisodesReturnedOk
  /\ Len(series) >= 2
  /\ series[1].ID \in FailedSeries
  /\ \E e \in Range(catalog[1].Episodes) : LowScoreLeaf(e.HasFile, e.EpisodeFile)
  /\ Len(ret.list) >= 1

TopLevelFailed ==
  /\ Len(calls) > 0
  /\ calls[1].op \in {"GetSeries", "GetMovies"}
  /\ ~calls[1].ok

\* C8: when the top-level listing fails the scan returns an error and no
\* match list, and the failed listing is the only call of the scan
C8_TopLevelFailureAborts ==
  TopLevelFailed
    => /\ pc \in {"episodesReturned", "moviesReturned"}
       /\ ret.err # NoError
       /\ ret.list = << >>
       /\ Len(calls) = 1

\* the scan of the second Sonarr instance returned the error of its failed
\* series listing
C8_Witness ==
  /\ pc = "episodesReturned"
  /\ idx = 2
  /\ TopLevelFailed
  /\ ret.err = "getting series"

\* the matches a scan has to return: the eligible items the scan can
\* discover, cut at a positive batch size
ExpectedMatches(eligible) ==
  IF cfg.BatchSize > 0
    THEN SubSeq(eligible, 1, IF Len(eligible) < cfg.BatchSize
                               THEN Len(eligible) ELSE cfg.BatchSize)
    ELSE eligible

\* C9: a scan returns an error exactly when its top-level listing failed;
\* failed episode listings and failed trigger calls leave the error nil, and
\* failed trigger calls take no match from the returned list
C9_ErrorIffTopLevelFails ==
  /\ pc \in {"episodesReturned", "moviesReturned"}
       => (ret.err # NoError <=> TopLevelFailed)
  /\ EpisodesReturnedOk
       => MatchedEpisodes(ret.list) = ExpectedMatches(EligibleEpisodes)
  /\ MoviesReturnedOk
       => MatchedMovies(ret.list) = ExpectedMatches(EligibleMovies)

\* a scan with a failed episode listing and a failed trigger call returned
\* its matches and no error
C9_Witness ==
  /\ EpisodesReturnedOk
  /\ FailedSeries # {}
  /\ \E c \in Range(TriggerCalls) : ~c.ok
  /\ Len(ret.list) >= 1
  /\ ret.err = NoError

\* the configured instances, Sonarr first, in configuration order
ConfiguredNames ==
  [k \in 1..Len(cfg.SonarrInstances) |-> cfg.SonarrInstances[k].Name]
    \o [k \in 1..Len(cfg.RadarrInstances) |-> cfg.RadarrInstances[k].Name]

\* C10: a scan error is logged for its instance and the pass goes on with
\* the next instance; when RunOnce has returned, every configured instance
\* of both types was scanned exactly once, in configuration order, and has
\* its one report; RunOnce always gets to its return
C10_InstanceErrorIsolated ==
  /\ [](pc = "done"
          => /\ scanned = ConfiguredNames
             /\ [k \in 1..Len(ConfiguredNames) |-> reports[k].inst] = ConfiguredNames)
  /\ [](pc # "done" => ENABLED Next)
  /\ [][ (pc \in {"episodesReturned", "moviesReturned"} /\ ret.err # NoError)
           => /\ reports' = Append(reports, [inst |-> scanned[Len(scanned)],
                                             kind |-> "error", n |-> 0,
                                             searched |-> FALSE])
              /\ idx' = idx + 1
              /\ pc' = (IF pc = "episodesReturned" THEN "sonarrLoop" ELSE "radarrLoop")
       ]_vars

\* a pass over two Sonarr instances and one Radarr instance in which the
\* scan of the second instance failed and the other two reported matches
C10_Witness ==
  /\ pc = "done"
  /\ Len(cfg.SonarrInstances) = 2
  /\ Len(reports) = 3
  /\ reports[1].kind = "found"
  /\ reports[2].kind = "error"
  /\ reports[3].kind = "found"

\* C11: when the scan stopped at the batch limit and trigger-search is
\* enabled, the search was triggered all the same, in the episode path and
\* in the movie path alike: the scan returns as many matches as the batch
\* size, and the IDs of the trigger calls, in call order, are exactly the
\* IDs of these matches
C11_TriggeredAtLimit ==
  (ScanReturnedOk /\ cfg.TriggerSearch /\ LimitHit)
    => /\ Len(ret.list) = cfg.BatchSize
       /\ Len(TriggerCalls) >= 1
       /\ Flatten(TriggerArgs) = CollectedIDs

\* an episode scan stopped at a batch limit beyond one sub-batch, left
\* eligible episodes out and sent two sub-batches
C11_Witness ==
  /\ EpisodesReturnedOk
  /\ cfg.TriggerSearch
  /\ LimitHit
  /\ cfg.BatchSize > DefaultSearchBatchSize
  /\ Len(EligibleEpisodes) > cfg.BatchSize
  /\ Len(TriggerCalls) = 2

\* C12 as stated: with any nonzero batch size the configuration delivers,
\* a scan returns at most as many matches as the batch size
C12_BoundedWhenNonzero ==
  (ScanReturnedOk /\ cfg.BatchSize # 0) => Len(ret.list) <= cfg.BatchSize

\* C12 (amended): with a positive batch size the match list of a scan
\* never holds more matches than the batch size, and neither does the list
\* the scan returns
C12_BoundedWhenPositive ==
  cfg.BatchSize > 0
    => /\ Len(lowScoreEpisodes) <= cfg.BatchSize
       /\ Len(lowScoreMovies) <= cfg.BatchSize
       /\ Len(ret.list) <= cfg.BatchSize

\* a movie scan with a batch size of two returned two matches of a catalog
\* that holds more
C12_Witness ==
  /\ MoviesReturnedOk
  /\ cfg.BatchSize = MaxBatch
  /\ Len(ret.list) = MaxBatch
  /\ Len(EligibleMovies) > MaxBatch

\* C13: with batch size 0 and no failed episode listing the scan returns
\* every eligible item of the catalog, in listing order, however many there
\* are; it never stops early: every series is listed and every movie
\* evaluated
C13_UnlimitedAtZero ==
  /\ (EpisodesReturnedOk /\ cfg.BatchSize = 0 /\ FailedSeries = {})
       => /\ MatchedEpisodes(ret.list) = CatalogEligibleEpisodes
          /\ Len(EpisodeListCalls) = Len(series)
  /\ (MoviesReturnedOk /\ cfg.BatchSize = 0)
       => /\ MatchedMovies(ret.list) = EligibleMovies
          /\ mIdx > Len(movies)
  /\ cfg.BatchSize = 0 => ~reachedLimit /\ pc # "moviesScanned"

\* a scan with batch size 0 returned more episodes than the longest series
\* holds, from two series
C13_Witness ==
  /\ EpisodesReturnedOk
  /\ cfg.BatchSize = 0
  /\ FailedSeries = {}
  /\ Len(ret.list) > MaxLong
  /\ ret.list[1].Series # ret.list[Len(ret.list)].Series

\* C14: RunDaemon, once entered and past the creation of its ticker, is
\* about to call RunOnce or has called it, whatever interval the
\* configuration delivered: it waits for a tick and takes a tick only after
\* its first pass
C14_FirstPassOnEntry ==
  (mode = "daemon" /\ pc \notin {"daemon", "exited"})
    => pc = "idle" \/ Len(passLog) >= 1

LastPassFailed == passLog # << >> /\ passLog[Len(passLog)]

DaemonEnded == pc \in {"exited", "panicked"}

\* C15: RunDaemon never returns; RunOnce is entered only at the entry of
\* RunDaemon or from the loop with a tick taken out of the ticker, a tick is
\* taken only by the waiting loop, and a taken tick is followed by RunOnce
\* and nothing else; with ticks firing and calls returning, RunOnce is
\* entered again and again unless the process is ended from outside
C15_TickingForever ==
  /\ [](mode = "daemon" => pc # "done")
  /\ [][ (pc' = "idle" /\ pc # "idle")
           => \/ pc = "daemon"
              \/ pc = "ticking" /\ ticker = 1 /\ ticker' = 0 ]_vars
  /\ [][ ticker' < ticker => (pc = "ticking" /\ pc' = "idle") ]_vars
  /\ [][ (pc' = "sonarrLoop" /\ pc \notin {"sonarrLoop", "episodesReturned"})
           => pc = "idle" ]_vars
  /\ [][ pc = "idle" => pc' \in {"idle", "sonarrLoop", "exited"} ]_vars
  /\ [](pc = "ticking" => <>(pc = "idle" \/ pc = "exited"))
  /\ ([]<>(pc = "idle") \/ <>DaemonEnded)

\* the daemon is back in its loop after a pass that followed a tick, and
\* the next tick is waiting
C15_Witness ==
  /\ pc = "ticking"
  /\ Len(passLog) = MaxPasses
  /\ ticker = 1
  /\ Len(reports) = 2

\* C16: a pass in which calls failed does not end the daemon: RunOnce
\* returns into the loop with every configured instance scanned, and the
\* next tick starts RunOnce anew, from the first instance
C16_FailedPassNotFatal ==
  /\ []((mode = "daemon" /\ LastPassFailed) => pc \notin {"done", "panicked"})
  /\ [](pc = "ticking"
          => /\ scanned = ConfiguredNames
             /\ Len(reports) >= Len(ConfiguredNames))
  /\ [][ (LastPassFailed /\ pc = "radarrLoop" /\ pc' \notin {"radarrLoop", "exited"}
            /\ idx > Len(cfg.RadarrInstances))
           => pc' = "ticking" ]_vars
  /\ [][ (pc = "idle" /\ pc' \notin {"idle", "exited"})
           => pc' = "sonarrLoop" /\ idx' = 1 /\ scanned' = << >> /\ reports' = << >> ]_vars
  /\ []((pc = "ticking" /\ LastPassFailed) => <>(pc = "idle" \/ pc = "exited"))

\* after a pass in which both instances failed at their top-level listing,
\* the daemon made a pass in which both reported matches
C16_Witness ==
  /\ pc = "ticking"
  /\ Len(passLog) >= 2
  /\ passLog[Len(passLog) - 1]
  /\ ~passLog[Len(passLog)]
  /\ Len(reports) = 2
  /\ reports[1].kind = "found"
  /\ reports[2].kind = "found"

\* C17: when the process has ended on a shutdown signal, no request of a
\* pass was left unanswered and no collected ID was left unsearched: the
\* pass in progress made all its calls
C17_SignalDoesNotInterrupt ==
  pc = "exited"
    => /\ inflight = << >>
       /\ cfg.TriggerSearch
            => Flatten(TriggerArgs) = episodesToSearch \o moviesToSearch

\* the instance whose scan is running
CurrentInstance ==
  IF pc \in {"sonarrLoop", "series", "episodes", "episodeTrigger", "episodesReturned"}
    THEN cfg.SonarrInstances[idx].Name
    ELSE cfg.RadarrInstances[idx].Name

\* C18: at most one request is in flight: a request is sent only when none
\* is unanswered, the request in flight is one of the instance being
\* scanned, and a pass starts (and a tick is taken) only when no request is
\* in flight and the scans of the pass before have returned
C18_OneCallInFlight ==
  /\ [](Len(inflight) <= 1)
  /\ []((inflight # << >> /\ pc # "exited")
          => /\ pc \in {"sonarrLoop", "series", "episodeTrigger", "radarrLoop", "movieTrigger"}
             /\ inflight[1].inst = CurrentInstance)
  /\ [][ (inflight' # inflight /\ inflight' # << >>) => inflight = << >> ]_vars
  /\ [][ (ticker' < ticker \/ (pc = "idle" /\ pc' = "sonarrLoop"))
           => inflight = << >> /\ calls = << >> ]_vars

\* in a later pass of the daemon the second sub-batch of a movie instance
\* is in flight while a tick is waiting
C18_Witness ==
  /\ pc = "movieTrigger"
  /\ i = DefaultSearchBatchSize
  /\ inflight # << >>
  /\ ticker = 1
  /\ Len(passLog) = MaxPasses

IsPrefix(a, b) == Len(a) <= Len(b) /\ a = SubSeq(b, 1, Len(a))

\* C19: the instances are scanned in the order of the configuration, the
\* Sonarr instances before the Radarr instances; the series of an instance
\* are listed in listing order; the match list holds the eligible items in
\* discovery order at every moment, and the pending-search list their IDs;
\* the sub-batches sent so far are the pending-search list from its start
C19_ListingOrder ==
  /\ IsPrefix(scanned, ConfiguredNames)
  /\ IsPrefix([k \in 1..Len(EpisodeListCalls) |-> EpisodeListCalls[k].arg[1]],
              IDsOf(catalog))
  /\ pc \in {"series", "episodes", "episodeTrigger", "episodesReturned"}
       => IsPrefix(MatchedEpisodes(lowScoreEpisodes), EligibleEpisodes)
  /\ pc \in {"movies", "moviesScanned", "movieTrigger", "moviesReturned"}
       => IsPrefix(MatchedMovies(lowScoreMovies), EligibleMovies)
  /\ cfg.TriggerSearch
       => /\ episodesToSearch = IDsOf(MatchedEpisodes(lowScoreEpisodes))
          /\ moviesToSearch = IDsOf(MatchedMovies(lowScoreMovies))
  /\ IsPrefix(Flatten(TriggerArgs), episodesToSearch \o moviesToSearch)

\* the scan of the second Radarr instance, the last of four, returned after
\* two sub-batches, and the Sonarr instance before the Radarr instances
\* reported two matches
C19_Witness ==
  /\ pc = "moviesReturned"
  /\ idx = 2
  /\ Len(scanned) = 4
  /\ Len(TriggerCalls) = 2
  /\ reports[2].kind = "found"
  /\ reports[2].n = 2

\* C20 as stated: when RunOnce has returned, every configured instance has
\* its "Found N" or its "No ... found" message, and a run without instances
\* has the "no instances configured" message
C20_EveryInstanceReported ==
  pc = "done"
    => IF ConfiguredNames = << >>
         THEN Len(reports) = 1 /\ reports[1].kind = "no instances"
         ELSE /\ [k \in 1..Len(reports) |-> reports[k].inst] = ConfiguredNames
              /\ \A k \in DOMAIN reports : reports[k].kind \in {"found", "none"}

\* C20 (amended): when RunOnce has returned, every configured instance has
\* exactly one message: "Found N" with N > 0 or "No ... found" if its scan
\* returned a list, the error message if its scan failed; a run without
\* instances has the "no instances configured" message
C20_EveryInstanceAccounted ==
  /\ [](pc = "done"
          => IF ConfiguredNames = << >>
               THEN Len(reports) = 1 /\ reports[1].kind = "no instances"
               ELSE /\ [k \in 1..Len(reports) |-> reports[k].inst] = ConfiguredNames
                    /\ \A k \in DOMAIN reports :
                         /\ reports[k].kind \in {"found", "none", "error"}
                         /\ reports[k].kind = "found" => reports[k].n > 0)
  /\ [][ (pc \in {"episodesReturned", "moviesReturned"} /\ pc' # pc)
           => /\ Len(reports') = Len(reports) + 1
              /\ LET r == reports'[Len(reports')]
                 IN  /\ r.inst = scanned[Len(scanned)]
                     /\ r.kind = (IF ret.err # NoError THEN "error"
                                  ELSE IF Len(ret.list) = 0 THEN "none" ELSE "found")
                     /\ r.n = Len(ret.list) ]_vars

\* a pass over three instances: the first reported no match, the scan of
\* the second failed, the third reported matches
C20_Witness ==
  /\ pc = "done"
  /\ Len(reports) = 3
  /\ reports[1].kind = "none"
  /\ reports[2].kind = "error"
  /\ reports[3].kind = "found"

\* ---------------------------------------------------------------------
\* C21 as stated: a scan that returns without error returns a non-nil match
\* list, also when nothing matched.  The code returns the slice it declared
\* and never appended to, which is nil.
C21_NonNilList == ScanReturnedOk => ~ret.isNil

\* C21: the match list a scan returns without error is the nil slice exactly
\* when it has no element: when nothing matched the list is nil (of length
\* 0), and it is non-nil as soon as one item matched.
C21_NilIffNoMatch ==
  ScanReturnedOk => /\ ret.isNil <=> Len(ret.list) = 0
                    /\ ret.isNil <=> (IF pc = "episodesReturned"
                                        THEN ExpectedMatches(EligibleEpisodes)
                                        ELSE ExpectedMatches(EligibleMovies)) = << >>

\* a scan of a catalog that has items, none of them matching, returned nil
C21_Witness ==
  /\ ScanReturnedOk
  /\ catalog # << >>
  /\ ret.isNil
  /\ ret.err = NoError

\* ---------------------------------------------------------------------
\* C22: when no TV instance and no movie instance is configured, RunOnce
\* sends no request and makes no call (no catalog call, no trigger call),
\* scans nothing and warns of nothing; it walks through its two empty loops
\* to its return, where the 'no instances configured' message is its one
\* and only message; it never stops before its return
C22_NoInstancesReported ==
  /\ []((ConfiguredNames = << >>)
         => /\ pc \in {"idle", "sonarrLoop", "radarrLoop", "done"}
            /\ calls = << >> /\ inflight = << >>
            /\ scanned = << >> /\ warnings = << >>
            /\ reports = (IF pc = "done" THEN << NoInstancesReport >> ELSE << >>)
            /\ pc # "done" => ENABLED Next)
  /\ [][ (ConfiguredNames = << >>)
           => /\ calls' = calls /\ inflight' = inflight
              /\ pc' = (CASE pc = "idle" -> "sonarrLoop"
                          [] pc = "sonarrLoop" -> "radarrLoop"
                          [] OTHER -> "done") ]_vars

\* RunOnce returned with no instance configured and one message
C22_Witness ==
  /\ pc = "done"
  /\ cfg.SonarrInstances = << >>
  /\ cfg.RadarrInstances = << >>
  /\ Len(reports) = 1
  /\ reports[1].kind = "no instances"

\* ---------------------------------------------------------------------
\* the first n of a list of items, all of them when n is not positive
FirstMatches(items, n) ==
  IF n > 0 THEN SubSeq(items, 1, Min(Len(items), n)) ELSE items

LowScoreEpisodeOf(e) ==
  [Series |-> [ID |-> e.SeriesID], Episode |-> e,
   CustomFormatScore |-> e.EpisodeFile[1].CustomFormatScore]

LowScoreMovieOf(m) ==
  [Movie |-> m, CustomFormatScore |-> m.MovieFile[1].CustomFormatScore]

SentIDs ==
  Flatten(TriggerArgs)
    \o (IF inflight # << >>
             /\ inflight[1].op \in {"TriggerEpisodeSearch", "TriggerMovieSearch"}
          THEN inflight[1].arg ELSE << >>)

\* C24: in every pass the IDs sent in the trigger calls of an instance are,
\* in order and without repetition, IDs of the matches the scan of this
\* instance collected in this pass; between two scans nothing is sent and
\* nothing is left of what was sent: no ID of an earlier pass or of the scan
\* of another instance is sent
C24_OnlyOwnMatches ==
  /\ pc \in {"series", "episodes", "episodeTrigger", "episodesReturned"}
       => IsPrefix(SentIDs, IDsOf(FirstMatches(EligibleEpisodes, cfg.BatchSize)))
  /\ pc \in {"movies", "moviesScanned", "movieTrigger", "moviesReturned"}
       => IsPrefix(SentIDs, IDsOf(FirstMatches(EligibleMovies, cfg.BatchSize)))
  /\ pc \in {"idle", "daemon", "ticking", "sonarrLoop", "radarrLoop", "done"}
       => SentIDs = << >>

\* in a later pass, after the scan of another instance that had matches of
\* its own, the second sub-batch of a movie scan is on the wire
C24_Witness ==
  /\ pc = "movieTrigger"
  /\ Len(passLog) >= 2
  /\ Len(reports) = 1 /\ reports[1].kind = "found" /\ reports[1].searched
  /\ Len(TriggerCalls) = 1
  /\ inflight # << >>
  /\ Len(SentIDs) = DefaultSearchBatchSize + 1

\* ---------------------------------------------------------------------
RECURSIVE ReportedItems(_)
\* the number of low-score items the messages of a run report
ReportedItems(rs) == IF rs = << >> THEN 0 ELSE Head(rs).n + ReportedItems(Tail(rs))

\* C25: in one run the number of low-score items processed over all
\* configured instances together is at most the configured (positive)
\* batch size.  The code counts per scan: each instance may reach the batch
\* size on its own.
C25_BatchPerRun ==
  (pc = "done" /\ cfg.BatchSize > 0) => ReportedItems(reports) <= cfg.BatchSize

\* ---------------------------------------------------------------------
\* the response is a command the service reports
IsCommand(body) ==
  body # << >> /\ {"id", "name", "status"} \subseteq DOMAIN body[1]

C27_EmptyCatalog ==
  /\ (TopLevelOk /\ catalog = << >>)
       => /\ Len(calls) = 1
          /\ EpisodeListCalls = << >> /\ TriggerCalls = << >>
          /\ inflight = << >>
          /\ warnings = << >>
          /\ lowScoreEpisodes = << >> /\ lowScoreMovies = << >>
          /\ episodesToSearch = << >> /\ moviesToSearch = << >>
  /\ (ScanReturnedOk /\ catalog = << >>)
       => Len(ret.list) = 0 /\ ret.err = NoError

\* the scan of an empty series list returned, with the trigger flag set and
\* a positive batch size
C27_Witness ==
  /\ EpisodesReturnedOk
  /\ catalog = << >>
  /\ cfg.TriggerSearch
  /\ cfg.BatchSize > 0
  /\ calls[1].op = "GetSeries"
  /\ Len(ret.list) = 0

\* ---------------------------------------------------------------------
\* the level a message of the run is logged at: slog.Error for the error of
\* a scan (app.go 227, 246), slog.Info for the other messages (161, 165, 255)
LevelOf(r) == IF r.kind = "error" THEN LevelError ELSE LevelInfo

\* the messages a configured level lets through (README, 'loglevel')
Permitted(configured, level) ==
  CASE configured = "ERROR" -> level >= LevelError
    [] configured = "INFO" -> level >= LevelInfo
    [] OTHER -> TRUE

\* C28: every message a run has written is of a level the configured log
\* level lets through: at ERROR only error messages, at INFO error and info
\* messages.  The handler of the run is always at the debug level, so a
\* run at ERROR writes its info messages all the same.
C28_LevelFilters ==
  \A k \in DOMAIN reports : Permitted(cfg.LogLevel, LevelOf(reports[k]))

\* ---------------------------------------------------------------------
\* C29 as stated: a scan of episodes that reached the batch limit returned
\* without a trigger call, while a scan of movies that reached it with
\* trigger-search enabled made its trigger calls.  The episode path leaves
\* its two loops by break and runs the sub-batch loop like the movie path.
C29_EpisodePathReturnsAtLimit ==
  /\ (EpisodesReturnedOk /\ LimitHit) => TriggerCalls = << >>
  /\ (MoviesReturnedOk /\ LimitHit /\ cfg.TriggerSearch) => TriggerCalls # << >>

\* C29: on reaching the batch limit neither path returns: the step that
\* reaches the limit leaves the scan loop (the episode path its inner loop,
\* then its outer one), and with trigger-search enabled the scan, in the
\* episode path and in the movie path alike, returns only out of the
\* sub-batch loop, after every sub-batch of the collected items was sent
C29_BothPathsTriggerAtLimit ==
  /\ [][ (LimitHit' /\ ~LimitHit)
           => /\ pc = "episodes" => pc' = "series" /\ reachedLimit'
              /\ pc = "movies" => pc' = "moviesScanned"
              /\ pc \in {"episodes", "movies"} ]_vars
  /\ [][ (pc' \in {"episodesReturned", "moviesReturned"} /\ pc' # pc
            /\ LimitHit /\ cfg.TriggerSearch)
           => /\ pc = (IF pc' = "episodesReturned" THEN "episodeTrigger"
                                                    ELSE "movieTrigger")
              /\ Len(TriggerCalls) = CeilDiv(processedCount, DefaultSearchBatchSize)
              /\ Flatten(TriggerArgs) = IDsOf(IF pc' = "episodesReturned"
                                                THEN MatchedEpisodes(ret'.list)
                                                ELSE MatchedMovies(ret'.list)) ]_vars

\* an episode scan cut at a batch limit beyond one sub-batch returned after
\* its two trigger calls, the first of which failed
C29_Witness ==
  /\ EpisodesReturnedOk
  /\ LimitHit
  /\ cfg.BatchSize = DefaultSearchBatchSize + 1
  /\ Len(CatalogEligibleEpisodes) > cfg.BatchSize
  /\ Len(TriggerCalls) = 2
  /\ ~TriggerCalls[1].ok

\* ---------------------------------------------------------------------
FetchOps == {"GetSeries", "GetEpisodes", "GetMovies"}

TriggerOps == {"TriggerEpisodeSearch", "TriggerMovieSearch"}

\* the instance whose turn it is: the first one without a report
InstanceInTurn == ConfiguredNames[Len(reports) + 1]

\* C30: within the scan of an instance no catalog fetch comes after a
\* trigger call; the report of an instance is emitted when its scan has
\* returned, with no request unanswered and, when there was something to
\* search, after the last sub-batch was answered, and no call of that
\* instance follows its report; every call is a call to the first instance
\* that has no report yet, so the first call to the next instance comes
\* after the report of the one before
C30_InstanceOrder ==
  /\ [](\A j, k \in DOMAIN calls :
          (j < k /\ calls[j].op \in TriggerOps) => calls[k].op \in TriggerOps)
  /\ []((inflight # << >> /\ TriggerCalls # << >>) => inflight[1].op \in TriggerOps)
  /\ []((inflight # << >> \/ calls # << >>) => Len(reports) < Len(ConfiguredNames))
  /\ [](inflight # << >> => inflight[1].inst = InstanceInTurn)
  /\ [](\A k \in DOMAIN calls : calls[k].inst = InstanceInTurn)
  /\ [][ (Len(reports') > Len(reports) /\ pc # "radarrLoop")
           => /\ pc \in {"episodesReturned", "moviesReturned"}
              /\ inflight = << >>
              /\ calls # << >>
              /\ reports'[Len(reports')].inst = calls[1].inst
              /\ (cfg.TriggerSearch /\ ret.err = NoError)
                   => /\ Len(TriggerCalls) = CeilDiv(Len(ret.list), DefaultSearchBatchSize)
                      /\ Len(ret.list) > 0 => calls[Len(calls)].op \in TriggerOps
              /\ calls' = << >> /\ inflight' = << >> ]_vars

\* the second Radarr instance has sent the second sub-batch of its search
\* after the three instances before it reported
C30_Witness ==
  /\ pc = "movieTrigger"
  /\ Len(reports) = 3
  /\ InstanceInTurn = cfg.RadarrInstances[2].Name
  /\ Len(TriggerCalls) = 1
  /\ inflight # << >>
  /\ inflight[1].op = "TriggerMovieSearch"

\* ---------------------------------------------------------------------
\* the sub-batches an ID list is sent in
SubBatches(ids) ==
  [k \in 1..CeilDiv(Len(ids), DefaultSearchBatchSize) |->
     SubSeq(ids, (k - 1) * DefaultSearchBatchSize + 1,
            Min(k * DefaultSearchBatchSize, Len(ids)))]

\* the eligible items of the running scan, in discovery order
Eligible ==
  IF pc = "episodesReturned" THEN EligibleEpisodes ELSE EligibleMovies

\* the items of the returned matches
Matched ==
  IF pc = "episodesReturned" THEN MatchedEpisodes(ret.list) ELSE MatchedMovies(ret.list)

\* the eligible items behind the first n (none when n is not positive)
Behind(items, n) ==
  IF n > 0 /\ Len(items) > n THEN SubSeq(items, n + 1, Len(items)) ELSE << >>

InPass ==
  pc \in {"sonarrLoop", "series", "episodes", "episodeTrigger", "episodesReturned",
          "radarrLoop", "movies", "moviesScanned", "movieTrigger", "moviesReturned"}

\* C32: at most one tick is ever held pending; a tick that fires during a
\* pass changes nothing of that pass and starts nothing, it is held if none
\* is pending and dropped otherwise; a pass starts only by taking the one
\* pending tick, which leaves none: after a long pass one catch-up pass
\* starts at once, and the pass after it waits for a new tick
C32_TicksDoNotAccumulate ==
  /\ [](ticker \in {0, 1})
  /\ [][ (InPass /\ ticker' # ticker)
           => /\ ticker = 0 /\ ticker' = 1
              /\ pc' = pc /\ inflight' = inflight /\ calls' = calls
              /\ passLog' = passLog /\ reports' = reports /\ idx' = idx ]_vars
  /\ [][ (pc = "ticking" /\ pc' \notin {"ticking", "exited"})
           => pc' = "idle" /\ ticker = 1 /\ ticker' = 0 ]_vars
  /\ [][ passLog' # passLog
           => \/ pc = "idle" /\ pc' = "sonarrLoop" /\ Len(passLog') <= Len(passLog) + 1
              \/ InPass /\ Len(passLog') = Len(passLog) ]_vars
  /\ [](pc = "ticking" /\ ticker = 0 => ~ENABLED TickReceive)

\* a tick is pending while the catch-up pass that took the tick before it
\* is sending the second sub-batch of its search
C32_Witness ==
  /\ pc = "movieTrigger"
  /\ Len(passLog) >= 2
  /\ ticker = 1
  /\ Len(TriggerCalls) = 1
  /\ inflight # << >>

\* ---------------------------------------------------------------------
\* C33: with a negative batch size, as with batch size 0, the scan is not
\* limited: the limit is never reached and no loop is left early, every
\* series is listed and every movie evaluated, the scan returns every
\* eligible item it can discover, in discovery order, and with
\* trigger-search enabled it sends them all
C33_NegativeIsUnlimited ==
  /\ cfg.BatchSize < 0 => ~reachedLimit /\ pc # "moviesScanned" /\ ~LimitHit
  /\ (EpisodesReturnedOk /\ cfg.BatchSize < 0)
       => /\ MatchedEpisodes(ret.list) = EligibleEpisodes
          /\ Len(EpisodeListCalls) = Len(series)
          /\ sIdx > Len(series)
  /\ (MoviesReturnedOk /\ cfg.BatchSize < 0)
       => /\ MatchedMovies(ret.list) = EligibleMovies
          /\ mIdx > Len(movies)
  /\ (ScanReturnedOk /\ cfg.BatchSize < 0 /\ cfg.TriggerSearch)
       => Flatten(TriggerArgs) = IDsOf(Eligible)

\* a movie scan with batch size -1 returned more matches than the largest
\* small batch size and sent them
C33_Witness ==
  /\ MoviesReturnedOk
  /\ cfg.BatchSize = -1
  /\ cfg.TriggerSearch
  /\ Len(ret.list) > MaxBatch
  /\ Len(ret.list) = Len(EligibleMovies)
  /\ TriggerCalls # << >>

\* ---------------------------------------------------------------------
\* C34: the report of an instance says that searches have been triggered
\* exactly when trigger-search is enabled and the scan returned a non-empty
\* match list, whatever the trigger calls of the instance answered; the
\* report of a failed scan and the report of an empty list never say so
C34_SearchedLine ==
  /\ [][ (pc \in {"episodesReturned", "moviesReturned"} /\ Len(reports') > Len(reports))
           => /\ reports'[Len(reports')].searched
                   <=> (cfg.TriggerSearch /\ ret.err = NoError /\ Len(ret.list) > 0)
              /\ reports'[Len(reports')].searched
                   => reports'[Len(reports')].kind = "found" ]_vars
  /\ [](\A k \in DOMAIN reports :
          reports[k].searched => cfg.TriggerSearch /\ reports[k].n > 0)

\* a pass over one Radarr instance reported one movie as searched although
\* its one trigger call, the only call of the pass that could fail, failed
C34_Witness ==
  /\ pc = "ticking"
  /\ cfg.SonarrInstances = << >>
  /\ Len(reports) = 1
  /\ reports[1].kind = "found"
  /\ reports[1].n = 1
  /\ reports[1].searched
  /\ passLog[Len(passLog)]

\* ---------------------------------------------------------------------
\* the trigger requests and calls of the running scan, in sending order
SubBatchesSent ==
  TriggerArgs
    \o (IF inflight # << >> /\ inflight[1].op \in TriggerOps
          THEN << inflight[1].arg >> ELSE << >>)

\* C35: every sub-batch the engine sends, answered or still on the wire,
\* holds at least 1 and at most C IDs, so the emptiness test of the client
\* operation passes for it; the sub-batch loop is entered only with a
\* non-empty ID list
C35_NoEmptySubBatch ==
  /\ [](\A k \in DOMAIN SubBatchesSent :
          /\ Len(SubBatchesSent[k]) >= 1
          /\ Len(SubBatchesSent[k]) <= DefaultSearchBatchSize
          /\ HasIDs(SubBatchesSent[k]))
  /\ [](pc = "episodeTrigger" => Len(episodesToSearch) >= 1)
  /\ [](pc = "movieTrigger" => Len(moviesToSearch) >= 1)

\* the last sub-batch of an episode search, a single ID, is on the wire
\* after a full sub-batch
C35_Witness ==
  /\ pc = "episodeTrigger"
  /\ Len(SubBatchesSent) = 2
  /\ Len(SubBatchesSent[1]) = DefaultSearchBatchSize
  /\ Len(SubBatchesSent[2]) = 1
  /\ inflight # << >>

\* the instances of the configuration, of both services
Configured ==
  { cfg.SonarrInstances[k] : k \in DOMAIN cfg.SonarrInstances } \cup
  { cfg.RadarrInstances[k] : k \in DOMAIN cfg.RadarrInstances }

SonarrOps == { "GetSeries", "GetEpisodes", "TriggerEpisodeSearch" }

\* the instance the client of request msg was built for: the instance of
\* the iteration of RunOnce's loop over the service's list
ClientInstance(msg) ==
  IF msg.op \in SonarrOps THEN cfg.SonarrInstances[idx] ELSE cfg.RadarrInstances[idx]

Received(ops) ==
  Len(CallsOf(ops)) + Len(SelectSeq(inflight, LAMBDA msg : msg.op \in ops))

\* a step in which a client call returned
CallReturned == Len(inflight') < Len(inflight)

\* C37: RunOnce terminates when every client call returns: each loop moves
\* on at every iteration (the episode, series, movie, sub-batch and
\* instance positions strictly increase), an instance receives at most one
\* top-level listing call, at most one episode-list call per series and at
\* most ceil(K/C) trigger calls for K pending IDs, and the pass reaches its
\* end
C37_RunOnceTerminates ==
  /\ [](/\ Received({"GetSeries", "GetMovies"}) <= 1
        /\ Received({"GetEpisodes"}) <= Len(series)
        /\ \A a, b \in DOMAIN EpisodeListCalls :
             EpisodeListCalls[a].arg = EpisodeListCalls[b].arg => a = b
        /\ Received({"TriggerEpisodeSearch"})
             <= CeilDiv(Len(episodesToSearch), DefaultSearchBatchSize)
        /\ Received({"TriggerMovieSearch"})
             <= CeilDiv(Len(moviesToSearch), DefaultSearchBatchSize))
  /\ [][/\ (pc = "episodes" /\ pc' = "episodes") => eIdx' = eIdx + 1
        /\ (pc \in {"series", "episodes"} /\ pc' = "series"
              /\ (pc = "episodes" \/ CallReturned))
             => sIdx' = sIdx + 1
        /\ (pc = "movies" /\ pc' = "movies") => mIdx' = mIdx + 1
        /\ (pc \in {"episodeTrigger", "movieTrigger"} /\ pc' = pc /\ CallReturned)
             => i' = i + DefaultSearchBatchSize
        /\ (pc \in {"episodesReturned", "moviesReturned"} /\ pc' # pc)
             => idx' = idx + 1 ]_vars
  /\ <>(pc = "done")

\* C37 witness: the pass has ended after four scans without a limit, each
\* of which found the eleven items of its catalog and sent them in two
\* trigger calls
C37_Witness ==
  /\ pc = "done"
  /\ cfg.BatchSize = 0
  /\ Len(reports) = 4
  /\ \A n \in 1..4 :
       /\ reports[n].kind = "found"
       /\ reports[n].n = DefaultSearchBatchSize + 1
       /\ reports[n].searched

\* the decimal numeral of n, as a Go string
RECURSIVE Decimal(_)
Decimal(n) ==
  IF n < 10 THEN << Zero + n >> ELSE Decimal(n \div 10) \o << Zero + (n % 10) >>

\* the instances config.Load has built from entries that give no name, as
\* pairs of the index in the list and the name
Unnamed ==
  { << k - 1, cfg.SonarrInstances[k].Name >> :
      k \in { j \in DOMAIN cfg.SonarrInstances : ~sonarrConfig[j].hasName } }
    \cup { << k - 1, cfg.RadarrInstances[k].Name >> :
             k \in { j \in DOMAIN cfg.RadarrInstances : ~radarrConfig[j].hasName } }

\* C38: an instance the settings give no name is named "default" at index 0
\* of its list and "instance" followed by the decimal numeral of its index i
\* at every index i > 0
C38_DefaultNames ==
  mode = "load"
    => \A u \in Unnamed :
         u[2] = IF u[1] = 0 THEN DefaultName ELSE InstancePrefix \o Decimal(u[1])

\* what the code does: the names are those of C38 up to index 9
C38_DefaultNamesToNine ==
  mode = "load"
    => \A u \in Unnamed :
         u[1] <= 9 => u[2] = IF u[1] = 0 THEN DefaultName
                              ELSE InstancePrefix \o Decimal(u[1])

\* the item IDs of the matches collected so far, in the order of the match
\* list
MatchIDs ==
  IDsOf(MatchedEpisodes(lowScoreEpisodes)) \o IDsOf(MatchedMovies(lowScoreMovies))

\* C39: at every point of a scan the processed counter is the length of
\* the match list; the pending-search list is the list of the matches' item
\* IDs in the same order when trigger-search is enabled, and is empty when
\* it is disabled
C39_CounterAndPending ==
  /\ lowScoreEpisodes = << >> \/ lowScoreMovies = << >>
  /\ processedCount = Len(lowScoreEpisodes) + Len(lowScoreMovies)
  /\ episodesToSearch \o moviesToSearch = IF cfg.TriggerSearch THEN MatchIDs ELSE << >>
  /\ lowScoreMovies = << >> => moviesToSearch = << >>
  /\ lowScoreEpisodes = << >> => episodesToSearch = << >>

\* C39 witness: in the middle of the scan of a second series, with
\* trigger-search enabled, two of the three episodes seen so far were
\* matched and their IDs are pending
C39_Witness ==
  /\ pc = "episodes"
  /\ cfg.TriggerSearch
  /\ sIdx = 2
  /\ processedCount = 2
  /\ Len(episodesToSearch) = 2
  /\ episodesToSearch[1] # episodesToSearch[2]

====
